---- MODULE Spec2Model ----
(***************************************************************************)
(* IVAkit flow runtime: FlowEngine (startSession / processInput /          *)
(* executeFlow / getSession / endSession), NodeExecutor, the node          *)
(* handlers, the in-memory SessionManager and the shared flow utilities.   *)
(*                                                                         *)
(* JavaScript values are tagged records so that values of different types  *)
(* can be compared: Undefined, Null, Str(chars), Num(n), Bool(b), Obj(f).   *)
(* A string is a sequence of one-character strings.  Confidences are       *)
(* percentages (0..100) instead of fractions (0..1).                        *)
(* Timestamps, durations and generated step ids are not modelled.          *)
(***************************************************************************)
EXTENDS Integers, Sequences, FiniteSets, TLC

\* ---------------------------------------------------------------------------
\* Bounds of the model
\* ---------------------------------------------------------------------------

\* EngineConfig.maxSteps handed to the FlowEngine constructor
MaxSteps == 5

\* number of sessions generateId('session') hands out in one behaviour
MaxSessions == 2

\* number of accepted startSession / processInput calls in one behaviour
MaxCalls == 4

\* number of calls of one session that callers that do not serialise their
\* calls keep in flight at a time
MaxOverlap == 2

\* number of sessions such callers start in one behaviour
MaxOverlapSessions == 1

\* number of startSession / processInput calls made by callers that subscribe
MaxEventCalls == 2

\* the subscriptions the callers hold at a time in the runs that unsubscribe
MaxSubscriptions == 2

\* ---------------------------------------------------------------------------
\* Values
\* ---------------------------------------------------------------------------

Undefined == [undef |-> TRUE]

Null == [null |-> TRUE]

Str(s) == [str |-> s]

Num(n) == [num |-> n]

Bool(b) == [bool |-> b]

Obj(f) == [obj |-> f]

IsStr(v) == DOMAIN v = {"str"}

IsNum(v) == DOMAIN v = {"num"}

IsObj(v) == DOMAIN v = {"obj"}

Has(r, f) == f \in DOMAIN r

\* the empty object / the empty variables mapping
EmptyMap == [k \in {} |-> Undefined]

\* JavaScript truthiness of a tagged value
Truthy(v) ==
    CASE v = Undefined -> FALSE
      [] v = Null -> FALSE
      [] IsStr(v) -> v.str # <<>>
      [] IsNum(v) -> v.num # 0
      [] Has(v, "bool") -> v.bool
      [] OTHER -> TRUE

\* obj[key] on a variables mapping: undefined when the key is absent
Lookup(vars, key) == IF key \in DOMAIN vars THEN vars[key] ELSE Undefined

\* `${variableName}_attempts`
AttemptsName(variableName) == variableName \o "_attempts"

\* ---------------------------------------------------------------------------
\* utils: interpolate
\* A template is a sequence of pieces: [lit |-> text] is literal text,
\* [tok |-> name] is a {{name}} token.  A substituted token becomes
\* [val |-> v], standing for String(v).
\* ---------------------------------------------------------------------------

interpolate(template, variables) ==
    [i \in DOMAIN template |->
        IF Has(template[i], "tok")
        THEN LET value == Lookup(variables, template[i].tok)
             IN  IF value = Undefined \/ value = Null
                 THEN template[i]
                 ELSE [val |-> value]
        ELSE template[i]]

\* a message string is falsy exactly when it is the empty string
PieceEmpty(p) ==
    CASE Has(p, "lit") -> p.lit = ""
      [] Has(p, "val") -> p.val = Str(<<>>)
      [] OTHER -> FALSE

TextTruthy(m) == m # Undefined /\ \E i \in DOMAIN m.text : ~PieceEmpty(m.text[i])

Text(pieces) == [text |-> pieces]

\* ---------------------------------------------------------------------------
\* utils: flow lookups
\* ---------------------------------------------------------------------------

\* flow.nodes.find(n => n.id === nodeId)
findNode(f, nodeId) ==
    LET hits == {i \in DOMAIN f.nodes : f.nodes[i].id = nodeId}
    IN  IF hits = {} THEN Undefined
        ELSE f.nodes[CHOOSE i \in hits : \A j \in hits : i <= j]

RECURSIVE FilterSeq(_, _)
FilterSeq(s, keep) ==
    IF s = <<>> THEN <<>>
    ELSE IF keep[1]
         THEN <<Head(s)>> \o FilterSeq(Tail(s), Tail(keep))
         ELSE FilterSeq(Tail(s), Tail(keep))

\* flow.edges.filter(edge => edge.source === nodeId)   (direction 'outgoing')
findConnectedEdges(f, nodeId) ==
    FilterSeq(f.edges, [i \in DOMAIN f.edges |-> f.edges[i].source = nodeId])

\* outgoing edges mapped to their target nodes, missing targets dropped
getNextNodes(f, nodeId) ==
    LET outgoingEdges == findConnectedEdges(f, nodeId)
        targets == [i \in DOMAIN outgoingEdges |-> findNode(f, outgoingEdges[i].target)]
    IN  FilterSeq(targets, [i \in DOMAIN targets |-> targets[i] # Undefined])

\* a shallow copy: in a value model the copy equals the original
cloneSession(session) ==
    [id |-> session.id,
     flowId |-> session.flowId,
     currentNodeId |-> session.currentNodeId,
     variables |-> [k \in DOMAIN session.variables |-> session.variables[k]],
     history |-> [i \in DOMAIN session.history |-> session.history[i]],
     status |-> session.status]

\* ---------------------------------------------------------------------------
\* runtime/types: NodeResult.  Every field is present; Undefined / FALSE stand
\* for an omitted field.  nextNodeId is Undefined (follow the edge), Null
\* (wait for input) or [id |-> nodeId].  emitted lists the events the handler
\* sent through context.emit.
\* ---------------------------------------------------------------------------

EmptyResult ==
    [output |-> Undefined, message |-> Undefined, nextNodeId |-> Undefined,
     variables |-> Undefined, waitForInput |-> FALSE, end |-> FALSE,
     error |-> Undefined, emitted |-> <<>>]

NodeResult(r) == [f \in DOMAIN EmptyResult |-> IF f \in DOMAIN r THEN r[f] ELSE EmptyResult[f]]

\* a handler that raised instead of returning
Thrown(msg) == [thrown |-> msg]

\* optional config field, Undefined when omitted
Opt(config, f) == IF f \in DOMAIN config THEN config[f] ELSE Undefined

\* an optional node id field of a config, as a nextNodeId
TargetOf(config, f) == IF f \in DOMAIN config THEN [id |-> config[f]] ELSE Undefined

\* ---------------------------------------------------------------------------
\* handlers.ts
\* ---------------------------------------------------------------------------

\* variant: the Start node pauses for input after its welcome message
handleStart_Waits(context) ==
    NodeResult([output |-> [started |-> TRUE], waitForInput |-> TRUE, nextNodeId |-> Null])

handleStart(context) ==
    LET config == context.node.config
        message == IF Has(config, "welcomeMessage") /\ config.welcomeMessage # <<>>
                   THEN Text(interpolate(config.welcomeMessage, context.session.variables))
                   ELSE Undefined
    IN  NodeResult([message |-> message, output |-> [started |-> TRUE]])

handleMessage(context) ==
    LET config == context.node.config
        message == Text(interpolate(config.message, context.session.variables))
    IN  NodeResult([message |-> message, output |-> [message |-> message]])

Whitespace == {" "}

Digits == {"0", "1", "2", "3", "4", "5", "6", "7", "8", "9"}

\* /^[^\s@]+@[^\s@]+\.[^\s@]+$/.test(input)
EmailTest(input) ==
    \E i \in DOMAIN input :
        /\ input[i] = "@"
        /\ i > 1
        /\ \A k \in DOMAIN input : k # i => input[k] \notin (Whitespace \cup {"@"})
        /\ \E j \in DOMAIN input : j > i + 1 /\ j < Len(input) /\ input[j] = "."

\* /^[\d\s\-+()]{10,}$/.test(input)
PhoneTest(input) ==
    /\ Len(input) >= 10
    /\ \A k \in DOMAIN input : input[k] \in (Digits \cup Whitespace \cup {"-", "+", "(", ")"})

DigitValue(c) == CHOOSE d \in 0..9 : <<"0", "1", "2", "3", "4", "5", "6", "7", "8", "9">>[d + 1] = c

RECURSIVE DigitsValue(_)
DigitsValue(s) == IF s = <<>> THEN 0 ELSE 10 * DigitsValue(SubSeq(s, 1, Len(s) - 1)) + DigitValue(s[Len(s)])

\* Number(input) for inputs made of decimal digits (the empty string is 0);
\* every other input of the model's alphabet is NaN
NumberOf(input) ==
    IF \A k \in DOMAIN input : input[k] \in Digits
    THEN [nan |-> FALSE, n |-> DigitsValue(input)]
    ELSE [nan |-> TRUE, n |-> 0]

\* validation types: text, number, email, phone; regex without a pattern and
\* every other type (date, custom) accept all input
validateInput(input, validation) ==
    IF validation = Undefined THEN TRUE
    ELSE CASE validation.type = "text" ->
                 /\ ~(Has(validation, "minLength") /\ validation.minLength # 0
                        /\ Len(input) < validation.minLength)
                 /\ ~(Has(validation, "maxLength") /\ validation.maxLength # 0
                        /\ Len(input) > validation.maxLength)
           [] validation.type = "number" ->
                 LET num == NumberOf(input)
                 IN  /\ ~num.nan
                     /\ ~(Has(validation, "min") /\ num.n < validation.min)
                     /\ ~(Has(validation, "max") /\ num.n > validation.max)
           [] validation.type = "email" -> EmailTest(input)
           [] validation.type = "phone" -> PhoneTest(input)
           [] OTHER -> TRUE

\* (variables[`${variableName}_attempts`] as number) || 0
AttemptsOf(variables, variableName) ==
    LET v == Lookup(variables, AttemptsName(variableName))
    IN  IF IsNum(v) THEN v.num ELSE 0

\* variant: a valid input leaves the attempt counter as it is
ResetAttempts_Kept(variableName) == EmptyMap

\* [`${config.variableName}_attempts`]: 0 in the patch of a valid input
ResetAttempts(variableName) == AttemptsName(variableName) :> Num(0)

\* attempts >= config.retry.maxAttempts
RetriesExhausted(attempts, maxAttempts) == attempts >= maxAttempts

\* variant: without a retry configuration an invalid input is fatal
InvalidWithoutRetry_Fatal(config) ==
    NodeResult([error |-> [code |-> "VALIDATION_FAILED"]])

\* the result for an invalid input when no retry is configured:
\* validation.errorMessage || 'Invalid input. Please try again.', and wait
InvalidWithoutRetry(config) ==
    NodeResult([message |-> Text(IF Has(config.validation, "errorMessage")
                                    /\ config.validation.errorMessage # <<>>
                                 THEN config.validation.errorMessage
                                 ELSE <<[lit |-> "Invalid input. Please try again."]>>),
                waitForInput |-> TRUE,
                nextNodeId |-> Null])

handleCollectInput(context) ==
    LET config == context.node.config
        input == context.input
    IN  IF input # Undefined
        THEN IF Has(config, "validation") /\ ~validateInput(input.str, config.validation)
             THEN IF Has(config, "retry")
                  THEN LET attempts == AttemptsOf(context.session.variables, config.variableName)
                       IN  IF RetriesExhausted(attempts, config.retry.maxAttempts)
                           THEN NodeResult([error |-> [code |-> "MAX_RETRIES_EXCEEDED"]])
                           ELSE NodeResult([message |-> Text(config.retry.retryMessage),
                                            variables |-> (AttemptsName(config.variableName) :> Num(attempts + 1)),
                                            waitForInput |-> TRUE,
                                            nextNodeId |-> Null])
                  ELSE InvalidWithoutRetry(config)
             ELSE NodeResult([variables |-> (config.variableName :> input)
                                             @@ ResetAttempts(config.variableName),
                              output |-> [collected |-> input]])
        ELSE NodeResult([message |-> IF Has(config, "prompt") /\ config.prompt # <<>>
                                     THEN Text(interpolate(config.prompt, context.session.variables))
                                     ELSE Undefined,
                         waitForInput |-> TRUE,
                         nextNodeId |-> Null])

\* config.intents.find(i => i.name === name)?.targetNodeId, as a nextNodeId;
\* name is Str(chars) or Undefined
IntentTarget(intents, name) ==
    LET hits == {i \in DOMAIN intents : Str(intents[i].name) = name}
    IN  IF hits = {} THEN Undefined
        ELSE TargetOf(intents[CHOOSE i \in hits : \A j \in hits : i <= j], "targetNodeId")

\* config.fallbackIntent, Undefined when omitted or the empty string (falsy)
FallbackIntent(config) ==
    IF Has(config, "fallbackIntent") /\ config.fallbackIntent # <<>>
    THEN Str(config.fallbackIntent) ELSE Undefined

DefaultConfidenceThreshold == 50

\* svc is the outcome of services.ai.classify: [intent, confidence] or Thrown.
\* The user message handed to classify (input || user_message ||
\* customer_message || '') does not influence the handler's result.
handleLLMRouter(context) ==
    LET config == context.node.config
        result == context.svc
        fallback == FallbackIntent(config)
        threshold == IF Has(config, "confidenceThreshold")
                     THEN config.confidenceThreshold ELSE DefaultConfidenceThreshold
    IN  IF Has(result, "thrown")
        THEN IF (Has(config, "model") /\ config.model.provider = "rules") \/ fallback # Undefined
             THEN LET name == IF fallback # Undefined THEN fallback
                                                       ELSE Str(<<"f", "a", "l", "l", "b", "a", "c", "k">>)
                  IN  NodeResult([output |-> [intent |-> name, confidence |-> 0, error |-> TRUE],
                                  variables |-> ("last_intent" :> name),
                                  nextNodeId |-> IntentTarget(config.intents, fallback)])
             ELSE result
        ELSE IF result.confidence < threshold /\ fallback # Undefined
        THEN NodeResult([output |-> [intent |-> fallback, confidence |-> result.confidence,
                                     originalIntent |-> Str(result.intent), fellback |-> TRUE],
                         variables |-> ("last_intent" :> fallback)
                                        @@ ("last_confidence" :> Num(result.confidence)),
                         nextNodeId |-> IntentTarget(config.intents, fallback)])
        ELSE IF IntentTarget(config.intents, Str(result.intent)) = Undefined
        THEN IF fallback # Undefined
             THEN NodeResult([output |-> [intent |-> fallback, confidence |-> 0, fellback |-> TRUE],
                              variables |-> ("last_intent" :> fallback)
                                             @@ ("last_confidence" :> Num(0)),
                              nextNodeId |-> IntentTarget(config.intents, fallback)])
             ELSE NodeResult([error |-> [code |-> "INTENT_NOT_FOUND"]])
        ELSE NodeResult([output |-> [intent |-> Str(result.intent), confidence |-> result.confidence],
                         variables |-> ("last_intent" :> Str(result.intent))
                                        @@ ("last_confidence" :> Num(result.confidence)),
                         nextNodeId |-> IntentTarget(config.intents, Str(result.intent))])

NotFoundResult ==
    Obj([answer |-> Str(<<>>), sources |-> Obj(EmptyMap), confidence |-> Num(0), grounded |-> Bool(FALSE)])

\* svc is the outcome of services.knowledge.search: an Obj with a grounded
\* field, or Thrown (the await rejects and the handler raises)
handleKnowledgeSearch(context) ==
    LET config == context.node.config
        result == context.svc
    IN  IF Has(result, "thrown") THEN result
        ELSE IF Has(config, "groundedOnly") /\ config.groundedOnly /\ ~result.obj.grounded.bool
        THEN NodeResult([output |-> Obj([result.obj EXCEPT !.grounded = Bool(FALSE)]),
                         variables |-> (config.resultVariable :> NotFoundResult)])
        ELSE NodeResult([output |-> result,
                         variables |-> (config.resultVariable :> result)])

\* variant: the onError setting of the node is not looked at
OnErrorAction_Ignored(config) == "none"

\* config.onError?.action, "none" when the node has no onError
OnErrorAction(config) == IF Has(config, "onError") THEN config.onError.action ELSE "none"

\* svc is the outcome of services.tools.execute: [success, output, error] or
\* Thrown.  The interpolated inputs are handed to the service only.
handleToolCall(context) ==
    LET config == context.node.config
        result == context.svc
        action == OnErrorAction(config)
    IN  IF Has(result, "thrown")
        THEN IF action = "continue"
             THEN NodeResult([output |-> [error |-> result.thrown, success |-> FALSE],
                              variables |-> (config.resultVariable :>
                                             Obj([error |-> result.thrown, success |-> Bool(FALSE)]))])
             ELSE NodeResult([error |-> [code |-> "TOOL_CALL_ERROR"]])
        ELSE IF ~result.success
        THEN CASE action = "continue" ->
                    NodeResult([output |-> [error |-> result.error, success |-> FALSE],
                                variables |-> (config.resultVariable :>
                                               Obj([error |-> result.error, success |-> Bool(FALSE)]))])
               [] action = "goto" ->
                    NodeResult([output |-> [error |-> result.error],
                                nextNodeId |-> TargetOf(config.onError, "targetNodeId")])
               [] action = "escalate" ->
                    NodeResult([output |-> [error |-> result.error]])
               [] OTHER ->
                    NodeResult([error |-> [code |-> "TOOL_CALL_FAILED"]])
        ELSE NodeResult([output |-> result.output,
                         variables |-> (config.resultVariable :> result.output)])

\* ---------------------------------------------------------------------------
\* utils: evaluateCondition
\* ---------------------------------------------------------------------------

DigitChar(d) == <<"0", "1", "2", "3", "4", "5", "6", "7", "8", "9">>[d + 1]

RECURSIVE NatChars(_)
NatChars(n) == IF n < 10 THEN <<DigitChar(n)>> ELSE NatChars(n \div 10) \o <<DigitChar(n % 10)>>

\* String(v ?? '')
StringOf(v) ==
    CASE v = Undefined \/ v = Null -> <<>>
      [] IsStr(v) -> v.str
      [] IsNum(v) -> IF v.num < 0 THEN <<"-">> \o NatChars(0 - v.num) ELSE NatChars(v.num)
      [] Has(v, "bool") -> IF v.bool THEN <<"t", "r", "u", "e">> ELSE <<"f", "a", "l", "s", "e">>
      [] OTHER -> <<"[", "o", "b", "j", "e", "c", "t", " ", "O", "b", "j", "e", "c", "t", "]">>

\* Number(v)
ToNumber(v) ==
    CASE v = Undefined -> [nan |-> TRUE, n |-> 0]
      [] v = Null -> [nan |-> FALSE, n |-> 0]
      [] IsStr(v) -> NumberOf(v.str)
      [] IsNum(v) -> [nan |-> FALSE, n |-> v.num]
      [] Has(v, "bool") -> [nan |-> FALSE, n |-> IF v.bool THEN 1 ELSE 0]
      [] OTHER -> [nan |-> TRUE, n |-> 0]

\* a === b : objects are compared by identity, a stored object is never the
\* object literal of the rule
StrictEquals(a, b) == a = b /\ ~IsObj(a)

\* haystack.includes(needle)
Includes(haystack, needle) ==
    \E i \in 1..(Len(haystack) - Len(needle) + 1) :
        SubSeq(haystack, i, i + Len(needle) - 1) = needle

StartsWith(haystack, needle) ==
    Len(needle) <= Len(haystack) /\ SubSeq(haystack, 1, Len(needle)) = needle

EndsWith(haystack, needle) ==
    Len(needle) <= Len(haystack)
    /\ SubSeq(haystack, Len(haystack) - Len(needle) + 1, Len(haystack)) = needle

\* every operator but matches_regex; an operator outside this list is a
\* non-match as in the default branch
evaluateCondition(operator, actual, expected) ==
    LET actualStr == StringOf(actual)
        expectedStr == StringOf(expected)
        actualNum == ToNumber(actual)
        expectedNum == ToNumber(expected)
        bothNum == ~actualNum.nan /\ ~expectedNum.nan
    IN  CASE operator = "equals" -> StrictEquals(actual, expected) \/ actualStr = expectedStr
          [] operator = "not_equals" -> ~StrictEquals(actual, expected) /\ actualStr # expectedStr
          [] operator = "contains" -> Includes(actualStr, expectedStr)
          [] operator = "not_contains" -> ~Includes(actualStr, expectedStr)
          [] operator = "starts_with" -> StartsWith(actualStr, expectedStr)
          [] operator = "ends_with" -> EndsWith(actualStr, expectedStr)
          [] operator = "greater_than" -> bothNum /\ actualNum.n > expectedNum.n
          [] operator = "less_than" -> bothNum /\ actualNum.n < expectedNum.n
          [] operator = "greater_or_equal" -> bothNum /\ actualNum.n >= expectedNum.n
          [] operator = "less_or_equal" -> bothNum /\ actualNum.n <= expectedNum.n
          [] operator = "is_empty" -> actual = Null \/ actual = Undefined \/ actualStr = <<>>
          [] operator = "is_not_empty" -> actual # Null /\ actual # Undefined /\ actualStr # <<>>
          [] OTHER -> FALSE

\* current[part] on a value: only objects have properties in the model
Prop(current, part) == IF IsObj(current) THEN Lookup(current.obj, part) ELSE Undefined

RECURSIVE WalkPath(_, _)
WalkPath(current, parts) ==
    IF parts = <<>> THEN current
    ELSE IF current = Null \/ current = Undefined THEN Undefined
    ELSE WalkPath(Prop(current, Head(parts)), Tail(parts))

\* path is the dotted path already split at the dots
getNestedValue(obj, path) == WalkPath(Obj(obj), path)

\* variant: the last rule that matches wins
FirstMatch_Last(conditions, variables) ==
    LET hits == {k \in DOMAIN conditions :
                    evaluateCondition(conditions[k].operator,
                                      getNestedValue(variables, conditions[k].variable),
                                      conditions[k].value)}
    IN  IF hits = {} THEN Undefined
        ELSE [condition |-> conditions[CHOOSE k \in hits : \A j \in hits : j <= k],
              value |-> getNestedValue(variables,
                            conditions[CHOOSE k \in hits : \A j \in hits : j <= k].variable)]

\* for (const condition of config.conditions): the first rule that matches
RECURSIVE FirstMatch(_, _)
FirstMatch(conditions, variables) ==
    IF conditions = <<>> THEN Undefined
    ELSE LET condition == Head(conditions)
             value == getNestedValue(variables, condition.variable)
         IN  IF evaluateCondition(condition.operator, value, condition.value)
             THEN [condition |-> condition, value |-> value]
             ELSE FirstMatch(Tail(conditions), variables)

handleCondition(context) ==
    LET config == context.node.config
        m == FirstMatch(config.conditions, context.session.variables)
    IN  IF m # Undefined
        THEN NodeResult([output |-> [matchedCondition |-> m.condition.id,
                                     variable |-> m.condition.variable,
                                     value |-> m.value],
                         nextNodeId |-> [id |-> m.condition.targetNodeId]])
        ELSE NodeResult([output |-> [matchedCondition |-> Null, default |-> TRUE],
                         nextNodeId |-> TargetOf(config, "defaultNodeId")])

handleEscalate(context) ==
    LET config == context.node.config
        message == IF Has(config, "handoffMessage") /\ config.handoffMessage # <<>>
                   THEN Text(interpolate(config.handoffMessage, context.session.variables))
                   ELSE Undefined
    IN  NodeResult([message |-> message,
                    output |-> [escalated |-> TRUE,
                                reason |-> config.reason,
                                queue |-> Opt(config, "queue"),
                                priority |-> Opt(config, "priority"),
                                context |-> Opt(config, "context")],
                    end |-> TRUE,
                    emitted |-> <<[type |-> "session_escalated",
                                   sessionId |-> context.session.id,
                                   reason |-> config.reason]>>])

handleEnd(context) ==
    LET config == context.node.config
        message == IF Has(config, "message") /\ config.message # <<>>
                   THEN Text(interpolate(config.message, context.session.variables))
                   ELSE Undefined
    IN  NodeResult([message |-> message,
                    output |-> [status |-> config.status, summary |-> Opt(config, "summary")],
                    end |-> TRUE])

NodeTypes ==
    {"start", "message", "collect_input", "llm_router", "knowledge_search",
     "tool_call", "condition", "escalate", "end"}

\* the handler registry: this.handlers[context.node.type]
createNodeHandlers(type, context) ==
    CASE type = "start" -> handleStart(context)
      [] type = "message" -> handleMessage(context)
      [] type = "collect_input" -> handleCollectInput(context)
      [] type = "llm_router" -> handleLLMRouter(context)
      [] type = "knowledge_search" -> handleKnowledgeSearch(context)
      [] type = "tool_call" -> handleToolCall(context)
      [] type = "condition" -> handleCondition(context)
      [] type = "escalate" -> handleEscalate(context)
      [] type = "end" -> handleEnd(context)

\* ---------------------------------------------------------------------------
\* executor.ts: NodeExecutor.execute
\* ---------------------------------------------------------------------------

\* the try / catch around the handler call
CatchThrown(r) ==
    IF Has(r, "thrown")
    THEN NodeResult([error |-> [code |-> "EXECUTION_ERROR", message |-> r.thrown]])
    ELSE r

execute(context) ==
    IF context.node.type \notin NodeTypes
    THEN NodeResult([error |-> [code |-> "UNKNOWN_NODE_TYPE"]])
    ELSE CatchThrown(createNodeHandlers(context.node.type, context))

\* ---------------------------------------------------------------------------
\* Flow definitions the engine is run on
\* ---------------------------------------------------------------------------

Node(id, type, config) == [id |-> id, type |-> type, config |-> config]

Edge(id, source, target) == [id |-> id, source |-> source, target |-> target]

Lit(text) == <<[lit |-> text]>>

ValidEmail == <<"a", "@", "b", ".", "c", "o">>

BadInput == <<"b", "a", "d">>

Inputs == {ValidEmail, BadInput}

OrderStatus == <<"o", "s">>

Refund == <<"r", "f">>

OkText == <<"o", "k">>

\* Start -> CollectInput(email, retry 2) -> Message -> End
FlowRetry ==
    [id |-> "retry", entryNode |-> "s",
     nodes |-> <<Node("s", "start", [welcomeMessage |-> Lit("Hi")]),
                 Node("ci", "collect_input",
                      [prompt |-> Lit("Email?"), variableName |-> "email",
                       validation |-> [type |-> "email"],
                       retry |-> [maxAttempts |-> 2, retryMessage |-> Lit("Try again.")]]),
                 Node("m1", "message", [message |-> <<[lit |-> "Got "], [tok |-> "email"]>>]),
                 Node("e", "end", [status |-> "completed"])>>,
     edges |-> <<Edge("e1", "s", "ci"), Edge("e2", "ci", "m1"), Edge("e3", "m1", "e")>>,
     variables |-> <<>>]

\* Start -> M1 -> M2 -> M1 ... : a cycle without a Collect-Input node
FlowLoop ==
    [id |-> "loop", entryNode |-> "s",
     nodes |-> <<Node("s", "start", [initVariables |-> ("greeting" :> Str(OkText))]),
                 Node("m1", "message", [message |-> Lit("one")]),
                 Node("m2", "message", [message |-> Lit("two")])>>,
     edges |-> <<Edge("e1", "s", "m1"), Edge("e2", "m1", "m2"), Edge("e3", "m2", "m1")>>,
     variables |-> <<[name |-> "count", defaultValue |-> Num(0)],
                     [name |-> "greeting", defaultValue |-> Str(<<>>)],
                     [name |-> "note"]>>]

\* Start -> CollectInput(msg) -> Escalate -> End
FlowEscalate ==
    [id |-> "escalate", entryNode |-> "s",
     nodes |-> <<Node("s", "start", [welcomeMessage |-> Lit("Hi")]),
                 Node("ci", "collect_input", [variableName |-> "msg"]),
                 Node("x", "escalate", [reason |-> "human please",
                                         handoffMessage |-> Lit("Connecting...")]),
                 Node("e", "end", [status |-> "completed"])>>,
     edges |-> <<Edge("e1", "s", "ci"), Edge("e2", "ci", "x"), Edge("e3", "x", "e")>>,
     variables |-> <<>>]

EndStatuses == {"completed", "escalated", "abandoned", "error"}

\* Start -> End(status)
FlowEnd(status) ==
    [id |-> "end_" \o status, entryNode |-> "s",
     nodes |-> <<Node("s", "start", [welcomeMessage |-> <<>>]),
                 Node("e", "end", [message |-> Lit("Bye"), status |-> status])>>,
     edges |-> <<Edge("e1", "s", "e")>>,
     variables |-> <<>>]

\* Start -> CollectInput(msg) -> LLMRouter(os -> M1, rf -> M2) -> End
FlowRouter ==
    [id |-> "router", entryNode |-> "s",
     nodes |-> <<Node("s", "start", [welcomeMessage |-> Lit("Hi")]),
                 Node("ci", "collect_input", [variableName |-> "msg"]),
                 Node("r", "llm_router",
                      [systemPrompt |-> "classify",
                       intents |-> <<[name |-> OrderStatus, targetNodeId |-> "m1"],
                                     [name |-> Refund, targetNodeId |-> "m2"]>>]),
                 Node("m1", "message", [message |-> Lit("Your order is shipped.")]),
                 Node("m2", "message", [message |-> Lit("Refund started.")]),
                 Node("e", "end", [status |-> "completed"])>>,
     edges |-> <<Edge("e1", "s", "ci"), Edge("e2", "ci", "r"), Edge("e3", "r", "m1"),
                 Edge("e4", "r", "m2"), Edge("e5", "m1", "e"), Edge("e6", "m2", "e")>>,
     variables |-> <<>>]

\* Start -> ToolCall(r, onError continue) -> Condition(r.status = ok) -> End / End
FlowTool ==
    [id |-> "tool", entryNode |-> "s",
     nodes |-> <<Node("s", "start", [welcomeMessage |-> <<>>]),
                 Node("t", "tool_call",
                      [toolId |-> "lookup", inputs |-> EmptyMap, resultVariable |-> "r",
                       onError |-> [action |-> "continue"]]),
                 Node("c", "condition",
                      [conditions |-> <<[id |-> "c1", variable |-> <<"r", "status">>,
                                         operator |-> "equals", value |-> Str(OkText),
                                         targetNodeId |-> "eok"]>>,
                       defaultNodeId |-> "efail"]),
                 Node("eok", "end", [status |-> "completed"]),
                 Node("efail", "end", [status |-> "completed", message |-> Lit("Failed")])>>,
     edges |-> <<Edge("e1", "s", "t"), Edge("e2", "t", "c"), Edge("e3", "c", "eok"),
                 Edge("e4", "c", "efail")>>,
     variables |-> <<>>]

\* Start -> KnowledgeSearch(groundedOnly) -> End
FlowKnowledge ==
    [id |-> "knowledge", entryNode |-> "s",
     nodes |-> <<Node("s", "start", [welcomeMessage |-> <<>>]),
                 Node("k", "knowledge_search",
                      [knowledgeBaseId |-> "kb", query |-> Lit("q"), resultVariable |-> "kb",
                       groundedOnly |-> TRUE]),
                 Node("e", "end", [status |-> "completed"])>>,
     edges |-> <<Edge("e1", "s", "k"), Edge("e2", "k", "e")>>,
     variables |-> <<>>]

\* Start -> CollectInput(email, retry 1) -> Message -> back to the CollectInput
FlowRevisit ==
    [id |-> "revisit", entryNode |-> "s",
     nodes |-> <<Node("s", "start", [welcomeMessage |-> <<>>]),
                 Node("ci", "collect_input",
                      [prompt |-> Lit("Email?"), variableName |-> "email",
                       validation |-> [type |-> "email"],
                       retry |-> [maxAttempts |-> 1, retryMessage |-> Lit("Try again.")]]),
                 Node("m1", "message", [message |-> Lit("Another?")]),
                 Node("e", "end", [status |-> "completed"])>>,
     edges |-> <<Edge("e1", "s", "ci"), Edge("e2", "ci", "m1"), Edge("e3", "m1", "ci")>>,
     variables |-> <<>>]

\* Start -> CollectInput(a: email, no retry) -> CollectInput(b) -> End
FlowInputs ==
    [id |-> "inputs", entryNode |-> "s",
     nodes |-> <<Node("s", "start", [welcomeMessage |-> <<>>]),
                 Node("ci", "collect_input",
                      [variableName |-> "a",
                       validation |-> [type |-> "email", errorMessage |-> Lit("Not an email.")]]),
                 Node("ci2", "collect_input", [prompt |-> Lit("And b?"), variableName |-> "b"]),
                 Node("e", "end", [status |-> "completed"])>>,
     edges |-> <<Edge("e1", "s", "ci"), Edge("e2", "ci", "ci2"), Edge("e3", "ci2", "e")>>,
     variables |-> <<>>]

\* Start -> LLMRouter -> End, with authoring errors: the intent os targets a
\* node that is not in the flow, and fallbackIntent names no intent of the list
FlowAuthoring ==
    [id |-> "authoring", entryNode |-> "s",
     nodes |-> <<Node("s", "start", [welcomeMessage |-> <<>>]),
                 Node("r", "llm_router",
                      [systemPrompt |-> "classify",
                       intents |-> <<[name |-> OrderStatus, targetNodeId |-> "gone"]>>,
                       fallbackIntent |-> <<"n", "f">>]),
                 Node("e", "end", [status |-> "completed"])>>,
     edges |-> <<Edge("e1", "s", "r"), Edge("e2", "r", "e")>>,
     variables |-> <<>>]

\* Start -> CollectInput(choice) -> Message -> back to the CollectInput (first
\* edge) or End (second edge)
FlowMenu ==
    [id |-> "menu", entryNode |-> "s",
     nodes |-> <<Node("s", "start", [welcomeMessage |-> <<>>]),
                 Node("ci", "collect_input", [prompt |-> Lit("Choice?"), variableName |-> "choice"]),
                 Node("m1", "message", [message |-> Lit("Done.")]),
                 Node("e", "end", [status |-> "completed"])>>,
     edges |-> <<Edge("e1", "s", "ci"), Edge("e2", "ci", "m1"), Edge("e3", "m1", "ci"),
                 Edge("e4", "m1", "e")>>,
     variables |-> <<>>]

\* Start -> LLMRouter(os -> M1, fb -> M2; fallbackIntent fb, threshold 80) -> End
FlowFallback ==
    [id |-> "fallback", entryNode |-> "s",
     nodes |-> <<Node("s", "start", [welcomeMessage |-> <<>>]),
                 Node("r", "llm_router",
                      [systemPrompt |-> "classify",
                       intents |-> <<[name |-> OrderStatus, targetNodeId |-> "m1"],
                                     [name |-> Refund, targetNodeId |-> "m1"],
                                     [name |-> <<"f", "b">>, targetNodeId |-> "m2"]>>,
                       fallbackIntent |-> <<"f", "b">>,
                       confidenceThreshold |-> 80]),
                 Node("m1", "message", [message |-> Lit("Your order is shipped.")]),
                 Node("m2", "message", [message |-> Lit("Say that again?")]),
                 Node("e", "end", [status |-> "completed"])>>,
     edges |-> <<Edge("e1", "s", "r"), Edge("e2", "r", "e"), Edge("e3", "r", "m1"),
                 Edge("e4", "r", "m2"), Edge("e5", "m1", "e"), Edge("e6", "m2", "e")>>,
     variables |-> <<>>]

\* Start -> LLMRouter(provider rules, os -> M1, no fallbackIntent) -> End
FlowRules ==
    [id |-> "rules", entryNode |-> "s",
     nodes |-> <<Node("s", "start", [welcomeMessage |-> <<>>]),
                 Node("r", "llm_router",
                      [systemPrompt |-> "classify",
                       model |-> [provider |-> "rules"],
                       intents |-> <<[name |-> OrderStatus, targetNodeId |-> "m1"]>>]),
                 Node("m1", "message", [message |-> Lit("Your order is shipped.")]),
                 Node("e", "end", [status |-> "completed"])>>,
     edges |-> <<Edge("e1", "s", "r"), Edge("e2", "r", "e"), Edge("e3", "r", "m1"),
                 Edge("e4", "m1", "e")>>,
     variables |-> <<>>]

\* Start -> ToolCall(r, retry 2, onError retry) -> End
FlowToolRetry ==
    [id |-> "toolretry", entryNode |-> "s",
     nodes |-> <<Node("s", "start", [welcomeMessage |-> <<>>]),
                 Node("t", "tool_call",
                      [toolId |-> "lookup", inputs |-> EmptyMap, resultVariable |-> "r",
                       retry |-> [maxAttempts |-> 2, backoffMs |-> 0],
                       onError |-> [action |-> "retry"]]),
                 Node("e", "end", [status |-> "completed"])>>,
     edges |-> <<Edge("e1", "s", "t"), Edge("e2", "t", "e")>>,
     variables |-> <<>>]

ConditionValues == {OkText, <<"o">>, BadInput}

\* Start(o.k = v) -> Condition(o.k equals "ok" -> E1; o.k starts_with "o" -> E2;
\* no defaultNodeId) with edges to E3, E1, E2 in this order, or with no
\* outgoing edge
FlowCondition(v, withEdges) ==
    [id |-> "condition", entryNode |-> "s",
     nodes |-> <<Node("s", "start", [initVariables |-> ("o" :> Obj([k |-> Str(v)]))]),
                 Node("c", "condition",
                      [conditions |-> <<[id |-> "c1", variable |-> <<"o", "k">>,
                                         operator |-> "equals", value |-> Str(OkText),
                                         targetNodeId |-> "e1"],
                                        [id |-> "c2", variable |-> <<"o", "k">>,
                                         operator |-> "starts_with", value |-> Str(<<"o">>),
                                         targetNodeId |-> "e2"]>>]),
                 Node("e1", "end", [status |-> "completed", message |-> Lit("one")]),
                 Node("e2", "end", [status |-> "completed", message |-> Lit("two")]),
                 Node("e3", "end", [status |-> "completed", message |-> Lit("three")])>>,
     edges |-> <<Edge("e1", "s", "c")>>
               \o (IF withEdges
                   THEN <<Edge("e2", "c", "e3"), Edge("e3", "c", "e1"), Edge("e4", "c", "e2")>>
                   ELSE <<>>),
     variables |-> <<>>]

\* Start -> Message with a first edge to a node that is not in the flow and a
\* second edge to End
FlowDangling ==
    [id |-> "dangling", entryNode |-> "s",
     nodes |-> <<Node("s", "start", [welcomeMessage |-> <<>>]),
                 Node("m1", "message", [message |-> Lit("one")]),
                 Node("e", "end", [status |-> "completed"])>>,
     edges |-> <<Edge("e1", "s", "m1"), Edge("e2", "m1", "gone"), Edge("e3", "m1", "e")>>,
     variables |-> <<>>]

\* entryNode names a node that is not in the flow
FlowNoEntry ==
    [id |-> "noentry", entryNode |-> "s0",
     nodes |-> <<Node("s", "start", [welcomeMessage |-> Lit("Hi")]),
                 Node("e", "end", [status |-> "completed"])>>,
     edges |-> <<Edge("e1", "s", "e")>>,
     variables |-> <<>>]

\* Start -> ToolCall(r, onError goto EFail) -> EOk
FlowToolGoto ==
    [id |-> "toolgoto", entryNode |-> "s",
     nodes |-> <<Node("s", "start", [welcomeMessage |-> <<>>]),
                 Node("t", "tool_call",
                      [toolId |-> "lookup", inputs |-> EmptyMap, resultVariable |-> "r",
                       onError |-> [action |-> "goto", targetNodeId |-> "efail"]]),
                 Node("eok", "end", [status |-> "completed"]),
                 Node("efail", "end", [status |-> "completed", message |-> Lit("Failed")])>>,
     edges |-> <<Edge("e1", "s", "t"), Edge("e2", "t", "eok")>>,
     variables |-> <<>>]

\* the nodes a chain ends with: an End node or a Collect-Input node that prompts
ChainEnds ==
    {Node("e", "end", [status |-> "completed"]),
     Node("ci", "collect_input", [prompt |-> Lit("Name?"), variableName |-> "name"])}

\* the ids of the nodes of a chain in execution order
ChainPath(last) ==
    <<"s">> \o [i \in 1..(MaxSteps - 2) |-> "m" \o ToString(i)] \o <<last.id>>

\* Start -> M1 -> ... -> last, MAX_STEPS nodes in a row: the handler of last is
\* the MAX_STEPS-th invocation of the startSession run
FlowChain(last) ==
    [id |-> "chain", entryNode |-> "s",
     nodes |-> <<Node("s", "start", [welcomeMessage |-> <<>>])>>
               \o [i \in 1..(MaxSteps - 2) |->
                      Node(ChainPath(last)[i + 1], "message", [message |-> Lit("on")])]
               \o <<last>>,
     edges |-> [i \in 1..(MaxSteps - 1) |->
                   Edge("e" \o ToString(i), ChainPath(last)[i], ChainPath(last)[i + 1])],
     variables |-> <<>>]

Flows ==
    {FlowRetry, FlowLoop, FlowEscalate, FlowRouter, FlowTool, FlowKnowledge,
     FlowRevisit, FlowInputs, FlowAuthoring, FlowNoEntry, FlowMenu,
     FlowFallback, FlowRules, FlowToolRetry, FlowDangling, FlowToolGoto}
    \cup {FlowChain(last) : last \in ChainEnds}
    \cup {FlowEnd(st) : st \in EndStatuses}
    \cup {FlowCondition(v, withEdges) : v \in ConditionValues, withEdges \in BOOLEAN}

\* ---------------------------------------------------------------------------
\* Outcomes of the injected services
\* ---------------------------------------------------------------------------

ClassifyOutcomes ==
    {[intent |-> OrderStatus, confidence |-> 90],
     [intent |-> Refund, confidence |-> 30],
     [intent |-> <<"z", "z">>, confidence |-> 90],
     Thrown(Str(<<"a", "i">>))}

SearchOutcomes ==
    {Obj([results |-> Obj(EmptyMap), answer |-> Str(OkText), confidence |-> Num(90),
          grounded |-> Bool(TRUE)]),
     Obj([results |-> Obj(EmptyMap), answer |-> Str(<<>>), confidence |-> Num(30),
          grounded |-> Bool(FALSE)]),
     Thrown(Str(<<"k", "b">>))}

ToolOutcomes ==
    {[success |-> TRUE, output |-> Obj([status |-> Str(OkText)]), error |-> Undefined],
     [success |-> FALSE, output |-> Undefined, error |-> Str(<<"5", "x", "x">>)],
     Thrown(Str(<<"t", "o">>))}

\* the service a node of this type calls answers with one of these
ServiceOutcomes(node) ==
    CASE node.type = "llm_router" -> ClassifyOutcomes
      [] node.type = "knowledge_search" -> SearchOutcomes
      [] node.type = "tool_call" -> ToolOutcomes
      [] OTHER -> {Undefined}

\* ---------------------------------------------------------------------------
\* State
\*   flow    the flow definition every call is made with
\*   store   SessionManager.sessions: session id -> stored session or Null
\*   calls   the accepted startSession / processInput calls in call order;
\*           a running call holds the locals of its executeFlow invocation
\*           (cur = currentSession, steps, input), a returned call its result
\*   events  per session id, every event handed to FlowEngine.emit for that
\*           session, in emission order
\*   eventHandlers  FlowEngine.eventHandlers: the subscribers in the order
\*           they subscribed
\*   delivered  per session id, every call of a subscriber made by
\*           FlowEngine.emit for an event of that session, in call order
\*   reply   what the most recently completed API call gave its caller: the
\*           session returned, Null, or [error |-> code] for a raised error
\* ---------------------------------------------------------------------------

VARIABLES flow, store, calls, events, reply, eventHandlers, delivered

vars == <<flow, store, calls, events, reply, eventHandlers, delivered>>

SessionIds == 1..MaxSessions

\* this.config.maxSteps
maxSteps == MaxSteps

\* sessions created so far; generateId('session') never repeats an id
Created == Cardinality({c \in DOMAIN calls : calls[c].op = "startSession"})

Running(sid) == {c \in DOMAIN calls : calls[c].pc = "running" /\ calls[c].sid = sid}

RECURSIVE AssignDefaults(_, _)
AssignDefaults(decls, variables) ==
    IF decls = <<>> THEN variables
    ELSE LET varDef == Head(decls)
         IN  AssignDefaults(Tail(decls),
                 IF Has(varDef, "defaultValue") /\ varDef.defaultValue # Undefined
                 THEN (varDef.name :> varDef.defaultValue) @@ variables
                 ELSE variables)

\* variant: the target is replaced by the source instead of merged
ObjectAssign_Replace(target, source) == source

\* Object.assign(target, source): shallow overwrite keyed by name
ObjectAssign(target, source) ==
    [k \in DOMAIN target \cup DOMAIN source |->
        IF k \in DOMAIN source THEN source[k] ELSE target[k]]

initializeVariables(f) ==
    LET variables == AssignDefaults(f.variables, EmptyMap)
        startNode == findNode(f, f.entryNode)
    IN  IF startNode # Undefined /\ startNode.type = "start"
           /\ Has(startNode.config, "initVariables")
        THEN ObjectAssign(variables, startNode.config.initVariables)
        ELSE variables

\* variant: only a session that is still running is rejected
NotWaiting_OnlyActive(session) == session.status = "active"

\* variant: a completed session counts as resumable
NotWaiting_CompletedResumes(session) == session.status \notin {"waiting_input", "completed"}

\* session.status !== 'waiting_input'
NotWaiting(session) == session.status # "waiting_input"

\* variant: off by one, steps <= maxSteps
LoopGuard_OffByOne(steps) == steps <= maxSteps

\* variant: the step counter is kept on the engine and shared by all calls
LoopGuard_SharedCounter(steps) == steps + (Len(calls) - 1) < maxSteps

\* while (steps < this.config.maxSteps)
LoopGuard(steps) == steps < maxSteps

\* variant: steps > maxSteps
StepBoundHit_Strict(steps) == steps > maxSteps

\* if (steps >= this.config.maxSteps) after the loop
StepBoundHit(steps) == steps >= maxSteps

\* the status set when a handler returns end
EndStatus(node) == "completed"

\* variant: unshift instead of push
PushStep_Front(history, step) == <<step>> \o history

\* variant: the input stays set for the rest of the run
ClearInput_Kept(input) == input

\* input = undefined after the first handler of a run that continues
ClearInput(input) == Undefined

\* currentSession.history.push(step)
PushStep(history, step) == Append(history, step)

\* if (result.variables) Object.assign(currentSession.variables, result.variables)
ApplyPatch(variables, result) ==
    IF result.variables # Undefined THEN ObjectAssign(variables, result.variables) ELSE variables

\* nextNodeId after a handler returned without error, wait or end:
\* Undefined stands for "no outgoing edge"
PickNext(f, node, result) ==
    IF result.nextNodeId = Undefined
    THEN LET nextNodes == getNextNodes(f, node.id)
         IN  IF nextNodes = <<>> THEN Undefined ELSE [id |-> nextNodes[1].id]
    ELSE result.nextNodeId

\* the events of one loop iteration up to and including message_sent
IterationEvents(session, node, result) ==
    <<[type |-> "node_started", sessionId |-> session.id,
       nodeId |-> node.id, nodeType |-> node.type]>>
    \o result.emitted
    \o <<[type |-> "node_completed", sessionId |-> session.id,
          nodeId |-> node.id, output |-> result.output]>>
    \o (IF TextTruthy(result.message)
        THEN <<[type |-> "message_sent", sessionId |-> session.id,
                message |-> result.message]>>
        ELSE <<>>)

\* the part of the loop body after the variables were updated and the message
\* sent: r1 and s1 are the locals and the session so far, base the events so far
Decide(r1, s1, base, node, result, next) ==
    CASE result.error # Undefined ->
           [run |-> [r1 EXCEPT !.cur = [s1 EXCEPT !.status = "error"], !.left = "error"],
            exit |-> TRUE,
            emitted |-> base \o <<[type |-> "node_error", sessionId |-> s1.id,
                                   nodeId |-> node.id, error |-> result.error]>>]
      [] result.error = Undefined /\ result.waitForInput ->
           [run |-> [r1 EXCEPT !.cur = [s1 EXCEPT !.status = "waiting_input"], !.left = "wait"],
            exit |-> TRUE, emitted |-> base]
      [] result.error = Undefined /\ ~result.waitForInput /\ result.end ->
           [run |-> [r1 EXCEPT !.cur = [s1 EXCEPT !.status = EndStatus(node)], !.left = "end"],
            exit |-> TRUE,
            emitted |-> base \o <<[type |-> "session_completed", sessionId |-> s1.id,
                                   status |-> EndStatus(node)]>>]
      [] OTHER ->
           IF next = Undefined
           THEN [run |-> [r1 EXCEPT !.cur = [s1 EXCEPT !.status = "completed"],
                                    !.left = "no_edge"],
                 exit |-> TRUE, emitted |-> base]
           ELSE IF next = Null
           THEN [run |-> [r1 EXCEPT !.cur = [s1 EXCEPT !.status = "waiting_input"],
                                    !.left = "null_next"],
                 exit |-> TRUE, emitted |-> base]
           ELSE [run |-> [r1 EXCEPT !.cur = [s1 EXCEPT !.currentNodeId = next.id],
                                    !.input = ClearInput(r1.input)],
                 exit |-> FALSE, emitted |-> base]

\* the loop body from the executor's result on: record the step, update the
\* variables, then decide
ApplyResult(run, node, svc, result) ==
    Decide([run EXCEPT !.steps = run.steps + 1,
                       !.invoked = run.invoked + 1,
                       !.visited = Append(run.visited, node.id),
                       !.svcs = IF svc = Undefined THEN run.svcs ELSE Append(run.svcs, svc),
                       !.patch = result.variables],
           [run.cur EXCEPT !.history = PushStep(run.cur.history,
                                           [nodeId |-> node.id, nodeType |-> node.type,
                                            input |-> run.input, output |-> result.output,
                                            error |-> result.error]),
                           !.variables = ApplyPatch(run.cur.variables, result)],
           IterationEvents(run.cur, node, result),
           node, result, PickNext(flow, node, result))

\* One pass through the body of the while loop of executeFlow for a node that
\* was found: the new locals, the events emitted and whether the loop was left
\* through a break.
Iteration(run, node, svc) ==
    ApplyResult(run, node, svc,
                execute([flow |-> flow, session |-> run.cur, node |-> node,
                         input |-> run.input, svc |-> svc]))

\* the node lookup failed: status error, break, no handler is invoked
NodeMissing(run) ==
    [run |-> [run EXCEPT !.steps = run.steps + 1,
                         !.cur = [run.cur EXCEPT !.status = "error"],
                         !.patch = Undefined,
                         !.left = "node_missing"],
     exit |-> TRUE, emitted |-> <<>>]

\* variant: no step-bound check after the loop
PostLoop_Skipped(run) == run.cur

\* the code after the loop: the step-bound check, then the session that is
\* persisted and returned
PostLoop(run) ==
    IF StepBoundHit(run.steps) THEN [run.cur EXCEPT !.status = "error"] ELSE run.cur

\* await this.services.sessions.set(currentSession); return currentSession
Return(c, run, final, st, cs) ==
    /\ calls' = [cs EXCEPT ![c] = [run EXCEPT !.pc = "returned", !.cur = final]]
    /\ store' = [st EXCEPT ![run.sid] = final]
    /\ reply' = [op |-> run.op, sid |-> run.sid, outcome |-> "ok", value |-> final]

\* variant: the session is written to the store after every iteration
Settle_Eager(c, run, exit, st, cs) ==
    IF exit \/ ~LoopGuard(run.steps)
    THEN Return(c, [run EXCEPT !.left = IF exit THEN run.left ELSE "bound"],
                PostLoop(run), st, cs)
    ELSE /\ calls' = [cs EXCEPT ![c] = run]
         /\ store' = [st EXCEPT ![run.sid] = run.cur]
         /\ reply' = reply

\* executeFlow up to its next suspension inside a handler, or to its return.
\* c is the call, run its locals after the synchronous part, exit whether the
\* loop was left through a break, st and cs the store and the call list the
\* synchronous part started from.
Settle(c, run, exit, st, cs) ==
    IF exit \/ ~LoopGuard(run.steps)
    THEN Return(c, [run EXCEPT !.left = IF exit THEN run.left ELSE "bound"],
                PostLoop(run), st, cs)
    ELSE /\ calls' = [cs EXCEPT ![c] = run]
         /\ store' = st
         /\ reply' = reply

\* the locals of a fresh executeFlow(flow, session, input) invocation
\* (before is the stored session the call started from).  The remaining fields
\* record the call for the properties: arg the input of the call, invoked the
\* number of handler invocations, visited the ids of the nodes handed to the
\* executor, svcs the service outcomes consumed, patch the variables patch of
\* the latest handler result, left how the loop was left.
NewRun(op, session, input, before) ==
    [op |-> op, sid |-> session.id, pc |-> "running",
     cur |-> cloneSession(session), steps |-> 0, input |-> input,
     before |-> before, arg |-> input, invoked |-> 0, visited |-> <<>>, svcs |-> <<>>,
     patch |-> Undefined, left |-> "none"]

\* The subscribers the callers register with FlowEngine.on: "raises" throws on
\* every event it is called with, "records" returns normally.
Subscribers == {"raises", "records"}

\* what calling subscriber h with an event does
Handler(h, event) == IF h = "raises" THEN "raise" ELSE "return"

\* variant: no try / catch around the call, a raise ends the loop of emit
Caught_Rethrown(outcome, rest) == IF outcome = "raise" THEN <<>> ELSE rest

\* try { handler(event) } catch (e) { console.error(...) }: whatever the
\* subscriber did, the loop goes on with the rest of the subscribers
Caught(outcome, rest) == rest

\* FlowEngine.emit(event): the calls of subscribers it makes, in order
RECURSIVE emit(_, _)
emit(handlers, event) ==
    IF handlers = <<>> THEN <<>>
    ELSE <<[to |-> Head(handlers), event |-> event]>>
         \o Caught(Handler(Head(handlers), event), emit(Tail(handlers), event))

\* the subscriber calls of a sequence of emit calls
RECURSIVE emitAll(_, _)
emitAll(handlers, es) ==
    IF es = <<>> THEN <<>> ELSE emit(handlers, Head(es)) \o emitAll(handlers, Tail(es))

\* this.emit(e) for each e of es, all for session sid
Emit(sid, es) ==
    /\ events' = [events EXCEPT ![sid] = @ \o es]
    /\ delivered' = [delivered EXCEPT ![sid] = @ \o emitAll(eventHandlers, es)]
    /\ UNCHANGED eventHandlers

\* ---------------------------------------------------------------------------
\* Actions
\* ---------------------------------------------------------------------------

Init ==
    /\ flow \in Flows
    /\ store = [sid \in SessionIds |-> Null]
    /\ calls = <<>>
    /\ events = [sid \in SessionIds |-> <<>>]
    /\ reply = [op |-> "none", sid |-> 0, outcome |-> "none", value |-> Null]
    /\ eventHandlers = <<>>
    /\ delivered = [sid \in SessionIds |-> <<>>]

\* the session startSession creates; id stands for generateId('session')
NewSession(f, id) ==
    [id |-> id,
     flowId |-> f.id,
     currentNodeId |-> f.entryNode,
     variables |-> initializeVariables(f),
     history |-> <<>>,
     status |-> "active"]

\* variant: startSession does not look the entry node up
EntryMissing_Unchecked(f) == FALSE

\* const entryNode = findNode(flow, flow.entryNode); if (!entryNode) throw
EntryMissing(f) == findNode(f, f.entryNode) = Undefined

\* FlowEngine.startSession(flow)
StartSession ==
    /\ Len(calls) < MaxCalls
    /\ Created < MaxSessions
    /\ IF EntryMissing(flow)
       THEN /\ reply' = [op |-> "startSession", sid |-> 0, outcome |-> "throw",
                         value |-> [error |-> "ENTRY_NOT_FOUND"]]
            /\ UNCHANGED <<flow, store, calls, events, eventHandlers, delivered>>
       ELSE LET session == NewSession(flow, Created + 1)
                run == NewRun("startSession", session, Undefined, session)
            IN  /\ Emit(session.id, <<[type |-> "session_started",
                                       sessionId |-> session.id, flowId |-> flow.id]>>)
                /\ Settle(Len(calls) + 1, run, FALSE,
                          [store EXCEPT ![session.id] = session], Append(calls, run))
                /\ UNCHANGED flow

\* FlowEngine.processInput(flow, sessionId, input).  The engine throws plain
\* Errors that carry a message only; SESSION_NOT_FOUND and SESSION_NOT_WAITING
\* name the two messages.  overlap = FALSE is the
\* caller contract: no second run loop is started for a session while one is
\* in flight.
ProcessInput(sessionId, input, overlap) ==
    LET session == store[sessionId]
    IN  IF session = Null
        THEN /\ reply' = [op |-> "processInput", sid |-> sessionId, outcome |-> "throw",
                          value |-> [error |-> "SESSION_NOT_FOUND"]]
             /\ UNCHANGED <<flow, store, calls, events, eventHandlers, delivered>>
        ELSE IF NotWaiting(session)
        THEN /\ reply' = [op |-> "processInput", sid |-> sessionId, outcome |-> "throw",
                          value |-> [error |-> "SESSION_NOT_WAITING"]]
             /\ UNCHANGED <<flow, store, calls, events, eventHandlers, delivered>>
        ELSE /\ Len(calls) < MaxCalls
             /\ overlap \/ Running(sessionId) = {}
             /\ LET updatedSession == [cloneSession(session) EXCEPT !.status = "active"]
                    run == NewRun("processInput", updatedSession, Str(input), session)
                IN  /\ Emit(sessionId, <<[type |-> "input_received",
                                          sessionId |-> sessionId, input |-> Str(input)]>>)
                    /\ Settle(Len(calls) + 1, run, FALSE, store, Append(calls, run))
                    /\ UNCHANGED flow

\* executeFlow resumes after the handler it was suspended in: one iteration of
\* the loop, and the return when the loop is left
Resume(c, it) ==
    /\ Emit(it.run.sid, it.emitted)
    /\ Settle(c, it.run, it.exit, store, calls)

StepAt(c, run, node) ==
    IF node = Undefined
    THEN Resume(c, NodeMissing(run))
    ELSE \E svc \in ServiceOutcomes(node) : Resume(c, Iteration(run, node, svc))

Step(c) ==
    /\ c \in DOMAIN calls
    /\ calls[c].pc = "running"
    /\ StepAt(c, calls[c], findNode(flow, calls[c].cur.currentNodeId))
    /\ UNCHANGED flow

\* FlowEngine.getSession(sessionId)
GetSession(sessionId) ==
    /\ reply' = [op |-> "getSession", sid |-> sessionId, outcome |-> "ok",
                 value |-> store[sessionId]]
    /\ UNCHANGED <<flow, store, calls, events, eventHandlers, delivered>>

\* variant: endSession clears the whole store
EndSession_Clear(sessionId) ==
    /\ store' = [sid \in SessionIds |-> Null]
    /\ reply' = [op |-> "endSession", sid |-> sessionId, outcome |-> "ok", value |-> Null]
    /\ UNCHANGED <<flow, calls, events, eventHandlers, delivered>>

\* FlowEngine.endSession(sessionId)
EndSession(sessionId) ==
    /\ store' = [store EXCEPT ![sessionId] = Null]
    /\ reply' = [op |-> "endSession", sid |-> sessionId, outcome |-> "ok", value |-> Null]
    /\ UNCHANGED <<flow, calls, events, eventHandlers, delivered>>

Next ==
    \/ StartSession
    \/ \E sid \in SessionIds, input \in Inputs : ProcessInput(sid, input, FALSE)
    \/ \E c \in 1..MaxCalls : Step(c)
    \/ \E sid \in SessionIds : GetSession(sid)
    \/ \E sid \in SessionIds : EndSession(sid)

Spec == Init /\ [][Next]_vars

\* The engine without the caller contract: processInput is accepted whenever
\* the stored status is waiting_input, also while a run of the session is
\* suspended inside a handler.  The callers keep at most MaxOverlap calls of a
\* session in flight and start at most MaxOverlapSessions sessions.
NextOverlap ==
    \/ Created < MaxOverlapSessions /\ StartSession
    \/ \E sid \in SessionIds, input \in Inputs :
          Cardinality(Running(sid)) < MaxOverlap /\ ProcessInput(sid, input, TRUE)
    \/ \E c \in 1..MaxCalls : Step(c)
    \/ \E sid \in SessionIds : GetSession(sid)
    \/ \E sid \in SessionIds : EndSession(sid)

SpecOverlap == Init /\ [][NextOverlap]_vars

\* FlowEngine.on(handler): the handler is pushed onto eventHandlers
On(h) ==
    /\ eventHandlers' = Append(eventHandlers, h)
    /\ UNCHANGED <<flow, store, calls, events, reply, delivered>>

\* The engine with callers that subscribe: each subscriber of Subscribers
\* subscribes at most once, while no run is in flight, and the callers make
\* at most MaxEventCalls startSession / processInput calls.
NextEvents ==
    \/ \E h \in Subscribers :
          /\ \A i \in DOMAIN eventHandlers : eventHandlers[i] # h
          /\ \A c \in DOMAIN calls : calls[c].pc = "returned"
          /\ On(h)
    \/ Len(calls) < MaxEventCalls /\ StartSession
    \/ \E sid \in SessionIds, input \in Inputs :
          Len(calls) < MaxEventCalls /\ ProcessInput(sid, input, FALSE)
    \/ \E c \in 1..MaxCalls : Step(c)
    \/ \E sid \in SessionIds : GetSession(sid)
    \/ \E sid \in SessionIds : EndSession(sid)

SpecEvents == Init /\ [][NextEvents]_vars

\* the function on(handler) returns: eventHandlers is replaced by its filter
\* h !== handler
Off(h) ==
    /\ eventHandlers' = FilterSeq(eventHandlers,
                                  [i \in DOMAIN eventHandlers |-> eventHandlers[i] # h])
    /\ UNCHANGED <<flow, store, calls, events, reply, delivered>>

\* The engine with callers that subscribe and unsubscribe while no run is in
\* flight: a subscriber may subscribe more than once, the callers hold at most
\* MaxSubscriptions subscriptions at a time, call the unsubscribe function of
\* a subscriber that is subscribed, and make at most MaxEventCalls
\* startSession / processInput calls.
NextSubscriptions ==
    \/ \E h \in Subscribers :
          /\ Len(eventHandlers) < MaxSubscriptions
          /\ \A c \in DOMAIN calls : calls[c].pc = "returned"
          /\ On(h)
    \/ \E h \in Subscribers :
          /\ \E i \in DOMAIN eventHandlers : eventHandlers[i] = h
          /\ \A c \in DOMAIN calls : calls[c].pc = "returned"
          /\ Off(h)
    \/ Len(calls) < MaxEventCalls /\ StartSession
    \/ \E sid \in SessionIds, input \in Inputs :
          Len(calls) < MaxEventCalls /\ ProcessInput(sid, input, FALSE)
    \/ \E c \in 1..MaxCalls : Step(c)

SpecSubscriptions == Init /\ [][NextSubscriptions]_vars

\* ---------------------------------------------------------------------------
\* Properties
\* ---------------------------------------------------------------------------

Returned(c) == c \in DOMAIN calls /\ calls[c].pc = "returned"

\* call c returns in this step
Returns(c) ==
    /\ c \in DOMAIN calls'
    /\ calls'[c].pc = "returned"
    /\ (c \in DOMAIN calls => calls[c].pc = "running")

TerminalStatuses == {"completed", "escalated", "error"}

Terminal(session) == session # Null /\ session.status \in TerminalStatuses

\* C1: processInput on a stored session whose status is not waiting_input
\* raises an error to the caller, starts no run loop (no handler is invoked),
\* emits no event and leaves the stored sessions unchanged.
C1_RejectsUnlessWaiting ==
    [][\A sid \in SessionIds, input \in Inputs :
          (/\ store[sid] # Null
           /\ store[sid].status # "waiting_input"
           /\ ProcessInput(sid, input, FALSE))
          => /\ reply' = [op |-> "processInput", sid |-> sid, outcome |-> "throw",
                          value |-> [error |-> "SESSION_NOT_WAITING"]]
             /\ calls' = calls
             /\ events' = events
             /\ store' = store]_vars

\* processInput was just rejected for a session that startSession is still running
C1_Witness ==
    /\ reply.op = "processInput" /\ reply.value = [error |-> "SESSION_NOT_WAITING"]
    /\ store[reply.sid] # Null
    /\ store[reply.sid].status = "active"
    /\ Running(reply.sid) # {}

\* C2: with the calls of a session serialised, once the stored status is
\* completed, escalated or error, no call of that session is running or runs
\* again (no handler is invoked for it) and startSession / processInput /
\* getSession leave the stored session as it is.
C2_TerminalIsFinal ==
    [][\A sid \in SessionIds :
          (Terminal(store[sid]) /\ ~EndSession(sid))
          => /\ store'[sid] = store[sid]
             /\ Running(sid) = {}
             /\ \A c \in DOMAIN calls' :
                    calls'[c].sid = sid => c \in DOMAIN calls /\ calls'[c] = calls[c]]_vars

\* processInput was tried on a session that had ended and was turned away
C2_Witness ==
    /\ reply.op = "processInput" /\ reply.outcome = "throw"
    /\ Terminal(store[reply.sid])
    /\ \E c \in DOMAIN calls : calls[c].sid = reply.sid /\ calls[c].op = "processInput"

\* C3: a single startSession or processInput call performs at most MAX_STEPS
\* handler invocations, also in a cyclic flow without a Collect-Input node.
C3_BoundedInvocations ==
    \A c \in DOMAIN calls : calls[c].invoked <= MaxSteps

\* a call on the cyclic flow was stopped after exactly MAX_STEPS invocations
C3_Witness ==
    \E c \in DOMAIN calls :
        Returned(c) /\ flow.id = "loop" /\ calls[c].invoked = MaxSteps

\* C4: a run that performs MAX_STEPS handler invocations, none of which returned
\* wait-for-input, end or an error, exits with status error, and that session
\* is what is persisted and returned.
C4_StepBoundIsError ==
    [][\A c \in DOMAIN calls' :
          (/\ Returns(c)
           /\ calls'[c].invoked = MaxSteps
           /\ calls'[c].left \notin {"error", "wait", "end"})
          => /\ calls'[c].cur.status = "error"
             /\ store'[calls'[c].sid] = calls'[c].cur
             /\ reply' = [op |-> calls'[c].op, sid |-> calls'[c].sid, outcome |-> "ok",
                          value |-> calls'[c].cur]]_vars

\* a cycle of Message nodes ran into the bound and the session is stored as error
C4_Witness ==
    \E c \in DOMAIN calls :
        /\ Returned(c) /\ calls[c].left = "bound" /\ calls[c].invoked = MaxSteps
        /\ calls[c].visited[MaxSteps] \in {"m1", "m2"}
        /\ store[calls[c].sid] # Null
        /\ store[calls[c].sid].status = "error"

IsPrefix(s, t) == Len(s) <= Len(t) /\ SubSeq(t, 1, Len(s)) = s

\* C5: the history of a call's session is the history before the call followed
\* by exactly one step per handler invocation of the call, in execution order.
C5_HistoryAppendOnly ==
    \A c \in DOMAIN calls :
        LET before == calls[c].before.history
            after == calls[c].cur.history
        IN  /\ IsPrefix(before, after)
            /\ Len(after) = Len(before) + calls[c].invoked
            /\ Len(calls[c].visited) = calls[c].invoked
            /\ \A i \in 1..calls[c].invoked :
                   after[Len(before) + i].nodeId = calls[c].visited[i]
            /\ (Returned(c) /\ calls[c].op = "startSession") => before = <<>>

\* a processInput call added several steps behind the steps of an earlier call
C5_Witness ==
    \E c \in DOMAIN calls :
        /\ Returned(c) /\ calls[c].op = "processInput"
        /\ Len(calls[c].before.history) >= 2
        /\ calls[c].invoked >= 2
        /\ store[calls[c].sid] = calls[c].cur

\* the variables a handler invocation leaves behind, given its patch
Overwritten(before, patch, after) ==
    IF patch = Undefined
    THEN after = before
    ELSE /\ DOMAIN after = DOMAIN before \cup DOMAIN patch
         /\ \A k \in DOMAIN patch : after[k] = patch[k]
         /\ \A k \in DOMAIN before \ DOMAIN patch : after[k] = before[k]

\* C6: each handler invocation leaves the session variables equal to the
\* variables before it shallow-overwritten by the returned patch (unchanged
\* without a patch), and nothing else in a run changes the variables.
C6_PatchSemantics ==
    [][\A c \in DOMAIN calls' :
          IF c \in DOMAIN calls
          THEN IF calls'[c].invoked = calls[c].invoked + 1
               THEN Overwritten(calls[c].cur.variables, calls'[c].patch,
                                calls'[c].cur.variables)
               ELSE /\ calls'[c].invoked = calls[c].invoked
                    /\ calls'[c].cur.variables = calls[c].cur.variables
          ELSE /\ calls'[c].invoked = 0
               /\ calls'[c].cur.variables = calls'[c].before.variables]_vars

\* a patch was applied to variables that hold another name as well
C6_Witness ==
    \E c \in DOMAIN calls :
        /\ calls[c].patch # Undefined
        /\ DOMAIN calls[c].patch # {}
        /\ DOMAIN calls[c].cur.variables \ DOMAIN calls[c].patch # {}

SameStart(a, b) ==
    /\ a.before.currentNodeId = b.before.currentNodeId
    /\ a.before.variables = b.before.variables
    /\ a.before.status = b.before.status
    /\ a.op = b.op
    /\ a.arg = b.arg

\* C7: two runs of the flow from the same session state with the same input
\* and the same sequence of service outcomes visit the same nodes and end with
\* the same status and the same variables.
C7_Deterministic ==
    \A c, d \in DOMAIN calls :
        (/\ Returned(c) /\ Returned(d)
         /\ SameStart(calls[c], calls[d])
         /\ calls[c].svcs = calls[d].svcs)
        => /\ calls[c].visited = calls[d].visited
           /\ calls[c].cur.status = calls[d].cur.status
           /\ calls[c].cur.variables = calls[d].cur.variables

\* two sessions ran from the same state and were given the same service outcome
C7_Witness ==
    \E c, d \in DOMAIN calls :
        /\ c # d /\ Returned(c) /\ Returned(d)
        /\ calls[c].sid # calls[d].sid
        /\ SameStart(calls[c], calls[d])
        /\ calls[c].svcs = calls[d].svcs
        /\ calls[c].svcs # <<>>

\* the node with this id, for ids the flow defines
NodeAt(nodeId) == findNode(flow, nodeId)

\* the positions of a call's visited list that hold a node of this type
VisitsOf(c, type) ==
    {i \in 1..Len(calls[c].visited) : NodeAt(calls[c].visited[i]).type = type}

\* C8: whenever a run executes an Escalate node, the run terminates at that
\* node with session status escalated, and a session_escalated event carrying
\* the node's reason has been delivered.
C8_EscalateEscalates ==
    \A c \in DOMAIN calls :
        \A i \in VisitsOf(c, "escalate") :
            /\ i = Len(calls[c].visited)
            /\ Returned(c)
            /\ calls[c].cur.status = "escalated"
            /\ \E k \in DOMAIN events[calls[c].sid] :
                   events[calls[c].sid][k] =
                       [type |-> "session_escalated", sessionId |-> calls[c].sid,
                        reason |-> NodeAt(calls[c].visited[i]).config.reason]

\* C9: whenever a run executes an End node, the final status of the session is
\* that node's config.status (completed, escalated, abandoned or error).
C9_EndStatusFromConfig ==
    \A c \in DOMAIN calls :
        \A i \in VisitsOf(c, "end") :
            /\ Returned(c)
            /\ NodeAt(calls[c].visited[i]).config.status \in EndStatuses
            /\ calls[c].cur.status = NodeAt(calls[c].visited[i]).config.status

\* call c is a processInput call that handed an input failing the validation
\* to a Collect-Input node configured with validation and retry
InvalidAt(c) ==
    /\ calls[c].op = "processInput"
    /\ LET node == NodeAt(calls[c].before.currentNodeId)
       IN  /\ node # Undefined
           /\ node.type = "collect_input"
           /\ Has(node.config, "validation")
           /\ Has(node.config, "retry")
           /\ ~validateInput(calls[c].arg.str, node.config.validation)

\* the calls of c's session before c, latest first
RECURSIVE Earlier(_, _)
Earlier(c, d) ==
    IF d = 0 THEN <<>>
    ELSE IF calls[d].sid = calls[c].sid THEN <<d>> \o Earlier(c, d - 1)
    ELSE Earlier(c, d - 1)

\* the number of leading calls of the list that are invalid inputs
RECURSIVE Leading(_)
Leading(ds) ==
    IF ds = <<>> \/ ~InvalidAt(Head(ds)) THEN 0 ELSE 1 + Leading(Tail(ds))

\* the length of the sequence of consecutive invalid inputs that ends with call c
InvalidStreak(c) == IF InvalidAt(c) THEN 1 + Leading(Earlier(c, c - 1)) ELSE 0

\* C10: with retry = {maxAttempts: n}, of n consecutive processInput calls with
\* invalid input the first n-1 leave the session waiting_input and the n-th
\* ends with status error and a history step whose error code is
\* MAX_RETRIES_EXCEEDED.
C10_RetriesEndAtN ==
    \A c \in DOMAIN calls :
        (Returned(c) /\ InvalidAt(c)) =>
            LET n == NodeAt(calls[c].before.currentNodeId).config.retry.maxAttempts
                k == InvalidStreak(c)
                history == calls[c].cur.history
            IN  /\ k < n => calls[c].cur.status = "waiting_input"
                /\ k = n => /\ calls[c].cur.status = "error"
                            /\ history # <<>>
                            /\ history[Len(history)].error = [code |-> "MAX_RETRIES_EXCEEDED"]

\* call c is a processInput call that handed a Collect-Input node an input
\* that passes the node's validation
ValidAt(c) ==
    /\ calls[c].op = "processInput"
    /\ LET node == NodeAt(calls[c].before.currentNodeId)
       IN  /\ node # Undefined
           /\ node.type = "collect_input"
           /\ Has(node.config, "validation")
              => validateInput(calls[c].arg.str, node.config.validation)

\* the call of c's session right before c is a valid / an invalid input
AfterValid(c) == Earlier(c, c - 1) # <<>> /\ ValidAt(Head(Earlier(c, c - 1)))

AfterInvalid(c) == Earlier(c, c - 1) # <<>> /\ InvalidAt(Head(Earlier(c, c - 1)))

\* C11: a valid input to a Collect-Input node, also after invalid inputs, is
\* stored in variables[variableName], the attempt counter is reset to 0 and the
\* run continues along the node's outgoing edge in the same call; an invalid
\* input on a later visit of the node is a first attempt again.
C11_ValidInputStoredAndReset ==
    \A c \in DOMAIN calls :
        /\ (ValidAt(c) /\ calls[c].invoked >= 1) =>
              LET node == NodeAt(calls[c].before.currentNodeId)
                  name == node.config.variableName
                  nextNodes == getNextNodes(flow, node.id)
              IN  /\ calls[c].visited[1] = node.id
                  /\ Lookup(calls[c].cur.variables, name) = calls[c].arg
                  /\ Lookup(calls[c].cur.variables, AttemptsName(name)) = Num(0)
                  /\ (Returned(c) /\ nextNodes # <<>>) =>
                        /\ calls[c].invoked >= 2
                        /\ calls[c].visited[2] = nextNodes[1].id
        /\ (Returned(c) /\ InvalidAt(c) /\ AfterValid(c)) =>
              LET node == NodeAt(calls[c].before.currentNodeId)
              IN  /\ calls[c].cur.status = "waiting_input"
                  /\ Lookup(calls[c].cur.variables, AttemptsName(node.config.variableName))
                        = Num(1)

\* an invalid input, then a valid one, then on the next visit of the node an
\* invalid one that is the only attempt the budget allows
C11_Witness ==
    \E c \in DOMAIN calls :
        /\ Returned(c) /\ InvalidAt(c) /\ AfterValid(c)
        /\ AfterInvalid(Head(Earlier(c, c - 1)))
        /\ NodeAt(calls[c].before.currentNodeId).config.retry.maxAttempts = 1
        /\ calls[c].cur.status = "waiting_input"

\* call c is a processInput call that handed an input failing the validation
\* to a Collect-Input node configured with validation and without retry
InvalidNoRetryAt(c) ==
    /\ calls[c].op = "processInput"
    /\ LET node == NodeAt(calls[c].before.currentNodeId)
       IN  /\ node # Undefined
           /\ node.type = "collect_input"
           /\ Has(node.config, "validation")
           /\ ~Has(node.config, "retry")
           /\ ~validateInput(calls[c].arg.str, node.config.validation)

\* C12: with validation and no retry configuration, every processInput call
\* with an invalid input returns with status waiting_input, the same
\* currentNodeId, variables[variableName] unchanged and no error in the one
\* step it appends, however many invalid inputs came before.
C12_InvalidWithoutRetryWaits ==
    \A c \in DOMAIN calls :
        InvalidNoRetryAt(c) =>
            LET node == NodeAt(calls[c].before.currentNodeId)
                history == calls[c].cur.history
            IN  /\ calls[c].invoked >= 1 =>
                      /\ Returned(c)
                      /\ calls[c].invoked = 1
                      /\ calls[c].cur.status = "waiting_input"
                      /\ history[Len(history)].nodeId = node.id
                      /\ history[Len(history)].error = Undefined
                      /\ (/\ store[calls[c].sid] # Null
                          /\ \A d \in DOMAIN calls : d > c => calls[d].sid # calls[c].sid)
                         => store[calls[c].sid] = calls[c].cur
                /\ calls[c].cur.currentNodeId = calls[c].before.currentNodeId
                /\ Lookup(calls[c].cur.variables, node.config.variableName)
                      = Lookup(calls[c].before.variables, node.config.variableName)

\* the third invalid input in a row was answered like the first
C12_Witness ==
    \E c \in DOMAIN calls :
        /\ Returned(c) /\ InvalidNoRetryAt(c)
        /\ Earlier(c, c - 1) # <<>> /\ InvalidNoRetryAt(Head(Earlier(c, c - 1)))
        /\ Len(Earlier(c, c - 1)) >= 3
        /\ calls[c].cur.status = "waiting_input"

\* the step that the i-th handler invocation of call c appended
StepOf(c, i) == calls[c].cur.history[Len(calls[c].before.history) + i]

WaitsAtCollectInput(session) ==
    (Has(session, "status") /\ session.status = "waiting_input") =>
        /\ NodeAt(session.currentNodeId) # Undefined
        /\ NodeAt(session.currentNodeId).type = "collect_input"

\* C14: in every session state the engine persisted or returned, status
\* waiting_input implies that currentNodeId is the id of a Collect-Input node.
C14_WaitingOnlyAtCollectInput ==
    /\ \A sid \in SessionIds : WaitsAtCollectInput(store[sid])
    /\ \A c \in DOMAIN calls : Returned(c) => WaitsAtCollectInput(calls[c].cur)
    /\ reply.outcome = "ok" => WaitsAtCollectInput(reply.value)

\* a run went through several nodes and now waits at the second Collect-Input node
C14_Witness ==
    \E c \in DOMAIN calls :
        /\ Returned(c) /\ calls[c].invoked >= 2
        /\ calls[c].cur.status = "waiting_input"
        /\ calls[c].cur.currentNodeId = "ci2"
        /\ store[calls[c].sid] = calls[c].cur
        /\ reply.value = calls[c].cur

\* C15: in every session state persisted or returned by startSession or
\* processInput, for a flow whose entry node exists and whatever the services
\* answer, currentNodeId is the id of a node of the flow.
C15_CurrentNodeExists ==
    NodeAt(flow.entryNode) # Undefined =>
        /\ \A sid \in SessionIds :
              store[sid] # Null => NodeAt(store[sid].currentNodeId) # Undefined
        /\ \A c \in DOMAIN calls :
              Returned(c) => NodeAt(calls[c].cur.currentNodeId) # Undefined

\* the position in calls[c].svcs of the service outcome that the i-th handler
\* invocation of call c consumed
SvcIndex(c, i) ==
    Cardinality({j \in 1..i : ServiceOutcomes(NodeAt(calls[c].visited[j])) # {Undefined}})

\* the router's fallbackIntent names no intent of its intents list
FallbackUnresolved(config) ==
    /\ FallbackIntent(config) # Undefined
    /\ \A k \in DOMAIN config.intents : Str(config.intents[k].name) # FallbackIntent(config)

\* the classification makes the router fall back: the confidence is below the
\* threshold or the intent is none of the list
FallsBack(config, result) ==
    /\ ~Has(result, "thrown")
    /\ \/ result.confidence < (IF Has(config, "confidenceThreshold")
                               THEN config.confidenceThreshold
                               ELSE DefaultConfidenceThreshold)
       \/ \A k \in DOMAIN config.intents : config.intents[k].name # result.intent

\* C16: when an LLM-Router whose fallbackIntent names no intent of its list
\* falls back, the run ends with status error and the router's step carries
\* the error code INTENT_NOT_FOUND.
C16_UnresolvedFallbackIsError ==
    \A c \in DOMAIN calls :
        \A i \in VisitsOf(c, "llm_router") :
            LET config == NodeAt(calls[c].visited[i]).config
            IN  (/\ Returned(c)
                 /\ FallbackUnresolved(config)
                 /\ FallsBack(config, calls[c].svcs[SvcIndex(c, i)]))
                => /\ calls[c].cur.status = "error"
                   /\ StepOf(c, i).error = [code |-> "INTENT_NOT_FOUND"]

\* C17: for a session id at most one run loop is active at any time: a
\* processInput call issued while another call of the session is suspended
\* inside a handler starts no second run loop.
C17_OneRunPerSession ==
    \A sid \in SessionIds : Cardinality(Running(sid)) <= 1

\* C18: under any interleaving of the calls, overlapping processInput calls on
\* one waiting session included, the stored history of a session id only
\* grows by appending: every stored step stays where it is in every later
\* stored version.
C18_StoredHistoryMonotonic ==
    [][\A sid \in SessionIds :
          (store[sid] # Null /\ store'[sid] # Null)
          => IsPrefix(store[sid].history, store'[sid].history)]_vars

\* C19: whenever a run ends with status error (handler error, wrapped
\* exception, node not found or step bound), the call returns to the caller,
\* the session is persisted with status error, and the last history step of
\* the session carries the error.
C19_ErrorCarriedByLastStep ==
    \A c \in DOMAIN calls :
        (Returned(c) /\ calls[c].cur.status = "error") =>
            LET history == calls[c].cur.history
            IN  /\ store[calls[c].sid] # Null => store[calls[c].sid] = calls[c].cur
                /\ history # <<>>
                /\ history[Len(history)].error # Undefined

\* C20: every run that ends with status error has emitted a session_completed
\* event with status error when the call returns.
C20_ErrorEmitsSessionCompleted ==
    \A c \in DOMAIN calls :
        (Returned(c) /\ calls[c].cur.status = "error") =>
            \E k \in DOMAIN events[calls[c].sid] :
                events[calls[c].sid][k] =
                    [type |-> "session_completed", sessionId |-> calls[c].sid,
                     status |-> "error"]

\* the steps a call appended to the history it started from
StepsOf(c) ==
    SubSeq(calls[c].cur.history, Len(calls[c].before.history) + 1, Len(calls[c].cur.history))

\* every subscriber of handlers called once per event of es, event by event,
\* the subscribers in subscription order
Fanout(handlers, es) ==
    [k \in 1..(Len(es) * Len(handlers)) |->
        [to |-> handlers[((k - 1) % Len(handlers)) + 1],
         event |-> es[((k - 1) \div Len(handlers)) + 1]]]

\* the positions of delivered[sid] at which the subscriber called raised
RaisedAt(sid) ==
    {k \in DOMAIN delivered[sid] :
        Handler(delivered[sid][k].to, delivered[sid][k].event) = "raise"}

\* C21: every emitted event is delivered to all current subscribers in
\* subscription order, also to the subscribers after one that raised, and a
\* run during which a subscriber raised visits the same nodes, ends with the
\* same status and variables and appends the same steps as a run from the same
\* state with the same input and service outcomes.
C21_RaisingSubscriberIsIsolated ==
    [][/\ \A sid \in SessionIds :
              delivered'[sid] = delivered[sid]
                  \o Fanout(eventHandlers,
                            SubSeq(events'[sid], Len(events[sid]) + 1, Len(events'[sid])))
       /\ \A c, d \in DOMAIN calls' :
              (/\ calls'[c].pc = "returned" /\ calls'[d].pc = "returned"
               /\ SameStart(calls'[c], calls'[d])
               /\ calls'[c].svcs = calls'[d].svcs)
              => /\ calls'[c].visited = calls'[d].visited
                 /\ calls'[c].cur.status = calls'[d].cur.status
                 /\ calls'[c].cur.variables = calls'[d].cur.variables
                 /\ StepsOf(c)' = StepsOf(d)']_vars

\* two sessions ran from the same state with the same service outcomes: in one
\* the first subscriber raised on an event and the second still received it,
\* in the other no subscriber raised
C21_Witness ==
    \E c, d \in DOMAIN calls :
        /\ Returned(c) /\ Returned(d)
        /\ calls[c].sid # calls[d].sid
        /\ SameStart(calls[c], calls[d])
        /\ calls[c].svcs = calls[d].svcs
        /\ calls[c].invoked > 1
        /\ RaisedAt(calls[d].sid) = {}
        /\ \E k \in RaisedAt(calls[c].sid) :
               /\ k + 1 \in DOMAIN delivered[calls[c].sid]
               /\ delivered[calls[c].sid][k + 1] =
                      [to |-> "records", event |-> delivered[calls[c].sid][k].event]

\* C22: startSession on a flow whose entryNode is not the id of a node of the
\* flow raises an error to the caller, stores no session, emits no event,
\* calls no subscriber and starts no run (no handler is invoked).
C22_MissingEntryRaises ==
    [][(findNode(flow, flow.entryNode) = Undefined /\ StartSession)
       => /\ reply' = [op |-> "startSession", sid |-> 0, outcome |-> "throw",
                        value |-> [error |-> "ENTRY_NOT_FOUND"]]
          /\ store' = store
          /\ events' = events
          /\ delivered' = delivered
          /\ calls' = calls]_vars

\* startSession was called on the flow without its entry node and raised
C22_Witness ==
    /\ findNode(flow, flow.entryNode) = Undefined
    /\ reply.op = "startSession" /\ reply.outcome = "throw"
    /\ calls = <<>>
    /\ \A sid \in SessionIds : store[sid] = Null /\ events[sid] = <<>>

\* the sessions executeFlow can return when it is entered with the locals run,
\* one for every choice of service outcomes: the loop of Step and Settle as a
\* function
RECURSIVE RunOutcomes(_)
AfterIteration(it) == IF it.exit THEN {PostLoop(it.run)} ELSE RunOutcomes(it.run)

RunOutcomes(run) ==
    IF ~LoopGuard(run.steps) THEN {PostLoop(run)}
    ELSE IF findNode(flow, run.cur.currentNodeId) = Undefined
    THEN {PostLoop(NodeMissing(run).run)}
    ELSE UNION {AfterIteration(Iteration(run, findNode(flow, run.cur.currentNodeId), svc)) :
                   svc \in ServiceOutcomes(findNode(flow, run.cur.currentNodeId))}

\* the sessions processInput(flow, session.id, input) can return
InputOutcomes(session, input) ==
    RunOutcomes(NewRun("processInput", [cloneSession(session) EXCEPT !.status = "active"],
                       Str(input), session))

\* some sequence of at most k inputs and some service outcomes take the
\* session to a terminal status
RECURSIVE CanTerminate(_, _)
CanTerminate(session, k) ==
    \/ Terminal(session)
    \/ /\ k > 0
       /\ ~NotWaiting(session)
       /\ \E input \in Inputs :
              \E next \in InputOutcomes(session, input) : CanTerminate(next, k - 1)

\* the ids of the nodes that the edges of f lead to from the nodes of ids,
\* in at most n hops
RECURSIVE EdgeReachable(_, _, _)
EdgeReachable(f, ids, n) ==
    IF n = 0 THEN ids
    ELSE EdgeReachable(f, ids \cup {f.edges[i].target :
                                      i \in {j \in DOMAIN f.edges : f.edges[j].source \in ids}},
                       n - 1)

\* an End or Escalate node is reachable from the entry node of f
EndReachable(f) ==
    \E i \in DOMAIN f.nodes :
        /\ f.nodes[i].type \in {"end", "escalate"}
        /\ f.nodes[i].id \in EdgeReachable(f, {f.entryNode}, Len(f.nodes))

\* C23: for every flow in which an End or Escalate node is reachable from the
\* entry node along the edges, some inputs and service outcomes take a session
\* started on the flow to a terminal status (completed, escalated or error)
\* within the calls a behaviour makes.
C23_SomeRunTerminates ==
    (calls = <<>> /\ ~EntryMissing(flow) /\ EndReachable(flow))
    => \E started \in RunOutcomes(NewRun("startSession", NewSession(flow, 1), Undefined,
                                          NewSession(flow, 1))) :
           CanTerminate(started, MaxCalls - 1)

\* the i-th handler invocation of call c was a Tool-Call whose Tool.execute
\* answered success = false
ToolFailedAt(c, i) ==
    /\ ~Has(calls[c].svcs[SvcIndex(c, i)], "thrown")
    /\ ~calls[c].svcs[SvcIndex(c, i)].success

\* the node is configured with onError.action = action
OnErrorIs(config, action) == Has(config, "onError") /\ config.onError.action = action

\* C24: for a Tool-Call node with onError.action = continue and an outgoing
\* edge, when Tool.execute answers success = false with error e, the step has
\* no error, variables[resultVariable] becomes {error: e, success: false}, and
\* the run goes on at the target of the node's outgoing edge.
C24_ToolFailureContinues ==
    \A c \in DOMAIN calls :
        \A i \in VisitsOf(c, "tool_call") :
            LET node == NodeAt(calls[c].visited[i])
                failure == Obj([error |-> calls[c].svcs[SvcIndex(c, i)].error,
                                success |-> Bool(FALSE)])
            IN  (/\ OnErrorIs(node.config, "continue")
                 /\ ToolFailedAt(c, i)
                 /\ getNextNodes(flow, node.id) # <<>>)
                => /\ StepOf(c, i).error = Undefined
                   /\ i < calls[c].invoked
                         => calls[c].visited[i + 1] = getNextNodes(flow, node.id)[1].id
                   /\ i = calls[c].invoked
                         => /\ calls[c].patch = (node.config.resultVariable :> failure)
                            /\ calls[c].cur.variables[node.config.resultVariable] = failure
                            /\ calls[c].cur.currentNodeId = getNextNodes(flow, node.id)[1].id
                            /\ calls[c].cur.status = "active"
                            /\ calls[c].pc = "running"

\* a run went on to the Condition node after the tool had answered
\* success = false, and completed
C24_Witness ==
    \E c \in DOMAIN calls :
        \E i \in VisitsOf(c, "tool_call") :
            /\ Returned(c)
            /\ OnErrorIs(NodeAt(calls[c].visited[i]).config, "continue")
            /\ ToolFailedAt(c, i)
            /\ i < calls[c].invoked
            /\ NodeAt(calls[c].visited[i + 1]).type = "condition"
            /\ calls[c].cur.status = "completed"
            /\ calls[c].cur.variables["r"].obj.success = Bool(FALSE)

\* the outcome of the service call of the i-th handler invocation of call c
SvcOf(c, i) == calls[c].svcs[SvcIndex(c, i)]

\* the positions of the intents with this name
Named(intents, name) == {k \in DOMAIN intents : intents[k].name = name}

\* the i-th handler invocation of call c recorded no error and the run went on
\* with the node nodeId
RoutedTo(c, i, nodeId) ==
    /\ StepOf(c, i).error = Undefined
    /\ i < calls[c].invoked => calls[c].visited[i + 1] = nodeId
    /\ i = calls[c].invoked => calls[c].cur.currentNodeId = nodeId

\* config.confidenceThreshold ?? 0.5, in percent
ThresholdOf(config) ==
    IF Has(config, "confidenceThreshold") THEN config.confidenceThreshold
    ELSE DefaultConfidenceThreshold

\* C25: when AI.classify succeeds in an LLM-Router node: with a confidence
\* below the threshold and a fallbackIntent configured the next node is the
\* targetNodeId of the intent named fallbackIntent; otherwise the next node is
\* the targetNodeId of the intent with the returned name; a returned name that
\* matches no intent, with no fallbackIntent configured, ends the step with
\* INTENT_NOT_FOUND.
C25_RouterRoutesByIntent ==
    \A c \in DOMAIN calls :
        \A i \in VisitsOf(c, "llm_router") :
            LET config == NodeAt(calls[c].visited[i]).config
                result == SvcOf(c, i)
            IN  ~Has(result, "thrown")
                => IF result.confidence < ThresholdOf(config) /\ Has(config, "fallbackIntent")
                   THEN \E k \in Named(config.intents, config.fallbackIntent) :
                            RoutedTo(c, i, config.intents[k].targetNodeId)
                   ELSE IF Named(config.intents, result.intent) # {}
                   THEN \E k \in Named(config.intents, result.intent) :
                            RoutedTo(c, i, config.intents[k].targetNodeId)
                   ELSE ~Has(config, "fallbackIntent")
                        => StepOf(c, i).error = [code |-> "INTENT_NOT_FOUND"]

\* C26: after every LLM-Router handler invocation that routes to a next node
\* (matched intent, low-confidence fallback, unmatched-name fallback, or
\* fallback after a failure of AI.classify), the variables patch of that
\* invocation holds both last_intent and last_confidence (patch is the patch
\* of the latest invocation as long as no node lookup has failed since).
C26_RouterWritesIntentAndConfidence ==
    \A c \in DOMAIN calls :
        \A i \in VisitsOf(c, "llm_router") :
            (/\ i = calls[c].invoked
             /\ calls[c].left # "node_missing"
             /\ StepOf(c, i).error = Undefined)
            => /\ calls[c].patch # Undefined
               /\ {"last_intent", "last_confidence"} \subseteq DOMAIN calls[c].patch
               /\ {"last_intent", "last_confidence"} \subseteq DOMAIN calls[c].cur.variables

\* the router is configured with model.provider = rules
RulesProvider(config) == Has(config, "model") /\ config.model.provider = "rules"

\* C27: when AI.classify raises in an LLM-Router node: with a fallbackIntent
\* configured or model.provider = rules the step has no error and the run
\* continues at the targetNodeId of the fallback intent; otherwise the step
\* carries an error and the session ends with status error.
C27_ClassifyFailureFallsBack ==
    \A c \in DOMAIN calls :
        \A i \in VisitsOf(c, "llm_router") :
            LET config == NodeAt(calls[c].visited[i]).config
            IN  Has(SvcOf(c, i), "thrown")
                => IF Has(config, "fallbackIntent") \/ RulesProvider(config)
                   THEN /\ Has(config, "fallbackIntent")
                        /\ \E k \in Named(config.intents, config.fallbackIntent) :
                               RoutedTo(c, i, config.intents[k].targetNodeId)
                   ELSE /\ StepOf(c, i).error # Undefined
                        /\ i = calls[c].invoked
                        /\ calls[c].cur.status = "error"
                        /\ Returned(c)
                        /\ store[calls[c].sid] # Null => store[calls[c].sid].status = "error"

\* the number of service calls the i-th handler invocation of call c made
ExecutionsOf(c, i) == SvcIndex(c, i) - SvcIndex(c, i - 1)

\* C28: a Tool-Call handler invocation with onError.action = retry whose first
\* Tool.execute call fails calls Tool.execute at least once more; with any
\* other onError setting, or none, or a first call that succeeds, an
\* invocation calls Tool.execute exactly once.
C28_RetryCallsToolAgain ==
    \A c \in DOMAIN calls :
        \A i \in VisitsOf(c, "tool_call") :
            IF /\ OnErrorIs(NodeAt(calls[c].visited[i]).config, "retry")
               /\ Has(calls[c].svcs[SvcIndex(c, i - 1) + 1], "thrown")
                    \/ ~calls[c].svcs[SvcIndex(c, i - 1) + 1].success
            THEN ExecutionsOf(c, i) >= 2
            ELSE ExecutionsOf(c, i) = 1

\* the positions of the rules of a Condition node that match the variables
Matching(config, variables) ==
    {k \in DOMAIN config.conditions :
        evaluateCondition(config.conditions[k].operator,
                          getNestedValue(variables, config.conditions[k].variable),
                          config.conditions[k].value)}

\* C29: a Condition node routes to the targetNodeId of the first rule, in
\* declared order, that matches the value its dotted path resolves to in the
\* session variables, whatever later rules match; when no rule matches it
\* routes to defaultNodeId if that is set and otherwise along the node's
\* outgoing edge.  (A Condition node leaves the variables as they are, so right
\* after its invocation they are the ones it evaluated.)
C29_FirstMatchingRuleWins ==
    \A c \in DOMAIN calls :
        \A i \in VisitsOf(c, "condition") :
            LET node == NodeAt(calls[c].visited[i])
                hits == Matching(node.config, calls[c].cur.variables)
            IN  i = calls[c].invoked
                => /\ StepOf(c, i).error = Undefined
                   /\ calls[c].patch = Undefined
                   /\ IF hits # {}
                      THEN \E k \in hits :
                               /\ \A j \in hits : k <= j
                               /\ calls[c].cur.currentNodeId = node.config.conditions[k].targetNodeId
                      ELSE IF Has(node.config, "defaultNodeId")
                      THEN calls[c].cur.currentNodeId = node.config.defaultNodeId
                      ELSE getNextNodes(flow, node.id) # <<>>
                           => calls[c].cur.currentNodeId = getNextNodes(flow, node.id)[1].id

\* two rules matched and the run ended at the target of the first, although
\* the node's first edge leads elsewhere
C29_Witness ==
    \E c \in DOMAIN calls :
        \E i \in VisitsOf(c, "condition") :
            /\ Returned(c)
            /\ Cardinality(Matching(NodeAt(calls[c].visited[i]).config,
                                    calls[c].cur.variables)) = 2
            /\ getNextNodes(flow, calls[c].visited[i]) # <<>>
            /\ getNextNodes(flow, calls[c].visited[i])[1].id = "e3"
            /\ i < calls[c].invoked
            /\ calls[c].visited[i + 1] = "e1"
            /\ calls[c].cur.status = "completed"

\* the result the executor hands back when call c, in this step, runs the
\* handler of the node it stands at; the service outcome is the one the step
\* appends to svcs
ResultOfStep(c) ==
    LET node == NodeAt(calls[c].cur.currentNodeId)
    IN  execute([flow |-> flow, session |-> calls[c].cur, node |-> node,
                 input |-> calls[c].input,
                 svc |-> IF ServiceOutcomes(node) = {Undefined} THEN Undefined
                         ELSE calls'[c].svcs[Len(calls'[c].svcs)]])

\* call c runs a handler in this step
Invokes(c) ==
    /\ calls[c].pc = "running"
    /\ calls'[c] # calls[c]
    /\ NodeAt(calls[c].cur.currentNodeId) # Undefined

\* C30: after a handler returns without error, wait-for-input or end: with an
\* explicit nextNodeId the run moves to that node whatever the node's edges
\* are; otherwise it moves to the target of the first outgoing edge in declared
\* edge order; and when the node has no outgoing edge the run exits with
\* status completed.
C30_NextNodeSelection ==
    [][\A c \in DOMAIN calls :
          (/\ Invokes(c)
           /\ ResultOfStep(c).error = Undefined
           /\ ~ResultOfStep(c).waitForInput
           /\ ~ResultOfStep(c).end
           /\ ResultOfStep(c).nextNodeId # Null)
          => IF ResultOfStep(c).nextNodeId # Undefined
             THEN /\ calls'[c].cur.currentNodeId = ResultOfStep(c).nextNodeId.id
                  /\ calls'[c].left \in {"none", "bound"}
             ELSE IF findConnectedEdges(flow, calls[c].cur.currentNodeId) # <<>>
             THEN /\ calls'[c].cur.currentNodeId =
                         findConnectedEdges(flow, calls[c].cur.currentNodeId)[1].target
                  /\ calls'[c].left \in {"none", "bound"}
             ELSE /\ calls'[c].pc = "returned"
                  /\ calls'[c].left = "no_edge"
                  /\ calls'[c].cur.status = "completed"]_vars

\* the handler call c runs in this step returns without error, wait-for-input
\* or end, so the run has to leave the node
LeavesNode(c) ==
    /\ Invokes(c)
    /\ ResultOfStep(c).error = Undefined
    /\ ~ResultOfStep(c).waitForInput
    /\ ~ResultOfStep(c).end
    /\ ResultOfStep(c).nextNodeId # Null

\* the id the run has to leave the node for: the explicit target of the
\* handler (intent, condition, default, onError target) or else the target of
\* the node's first outgoing edge; Undefined when there is neither
ExitTarget(c) ==
    IF ResultOfStep(c).nextNodeId # Undefined THEN ResultOfStep(c).nextNodeId
    ELSE IF findConnectedEdges(flow, calls[c].cur.currentNodeId) # <<>>
    THEN [id |-> findConnectedEdges(flow, calls[c].cur.currentNodeId)[1].target]
    ELSE Undefined

\* C31: a run that has to leave a node through an edge, or an intent or
\* condition target, whose id is not a node of the flow does not go on with
\* another node and does not finish as completed: it ends with status error.
C31_AuthoringErrorsAreFatal ==
    [][\A c \in DOMAIN calls :
          (/\ LeavesNode(c)
           /\ ExitTarget(c) # Undefined
           /\ NodeAt(ExitTarget(c).id) = Undefined)
          => IF calls'[c].pc = "returned"
             THEN calls'[c].cur.status = "error"
             ELSE NodeAt(calls'[c].cur.currentNodeId) = Undefined]_vars

\* C32: when a call has returned because the step bound stopped its run, a
\* node_error event has been emitted for its session.
C32_StepBoundEmitsNodeError ==
    \A c \in DOMAIN calls :
        (Returned(c) /\ calls[c].left = "bound")
        => \E k \in DOMAIN events[calls[c].sid] :
               events[calls[c].sid][k].type = "node_error"

NodeEventTypes == {"node_started", "node_completed", "node_error", "message_sent"}

IsNodeEvent(e) == e.type \in NodeEventTypes

\* the types of the node events emitted for the session of call c in this step
NodeEventsOfStep(c) ==
    LET before == events[calls[c].sid]
        after == events'[calls[c].sid]
        new == SelectSeq(SubSeq(after, Len(before) + 1, Len(after)), IsNodeEvent)
    IN  [k \in DOMAIN new |-> new[k].type]

\* C33: the events of one handler invocation are node_started, then exactly
\* one of node_completed (no error) or node_error (error), then message_sent
\* if the handler returned a message, and nothing of the next invocation comes
\* in between.
C33_InvocationEventOrder ==
    [][\A c \in DOMAIN calls :
          Invokes(c)
          => NodeEventsOfStep(c) =
                 <<"node_started",
                   IF ResultOfStep(c).error = Undefined THEN "node_completed"
                   ELSE "node_error">>
                 \o (IF TextTruthy(ResultOfStep(c).message) THEN <<"message_sent">>
                     ELSE <<>>)]_vars

\* C34: a run left because a handler returned end or wait-for-input without
\* error, at any of its first MAX_STEPS invocations, finishes with the status
\* of that handler: a terminal status other than error for end, waiting_input
\* for wait-for-input.
C34_EndOrWaitDecidesStatus ==
    \A c \in DOMAIN calls :
        Returned(c)
        => /\ calls[c].left = "end"
                 => calls[c].cur.status \in TerminalStatuses \ {"error"}
           /\ calls[c].left = "wait" => calls[c].cur.status = "waiting_input"

\* the i-th handler invocation of call c was a Tool-Call whose Tool.execute
\* failed: it answered success = false or it raised
ToolFailure(c, i) == Has(SvcOf(c, i), "thrown") \/ ~SvcOf(c, i).success

\* the error of that failure
ToolError(c, i) ==
    IF Has(SvcOf(c, i), "thrown") THEN SvcOf(c, i).thrown ELSE SvcOf(c, i).error

\* C35: a tool failure, reported as success = false or raised, is handled by
\* the onError policy of the node: with goto the run goes on at
\* onError.targetNodeId, with continue the step has no error and its output
\* is {error, success: false}, and the step has an error only when the node
\* has no onError.
C35_ToolFailurePolicy ==
    \A c \in DOMAIN calls :
        \A i \in VisitsOf(c, "tool_call") :
            LET config == NodeAt(calls[c].visited[i]).config
            IN  ToolFailure(c, i)
                => /\ OnErrorIs(config, "goto")
                         => RoutedTo(c, i, config.onError.targetNodeId)
                   /\ OnErrorIs(config, "continue")
                         => /\ StepOf(c, i).error = Undefined
                            /\ StepOf(c, i).output =
                                   [error |-> ToolError(c, i), success |-> FALSE]
                   /\ StepOf(c, i).error # Undefined => ~Has(config, "onError")

\* C36: a session that was created and is absent from the store (endSession
\* has removed it) stays absent: no later step puts it back, so getSession
\* keeps returning none and processInput keeps being rejected.
C36_EndedSessionStaysEnded ==
    [][\A sid \in SessionIds :
          (sid <= Created /\ store[sid] = Null) => store'[sid] = Null]_vars

ResultStatuses == {"waiting_input", "completed", "escalated", "error"}

\* C37: the session a startSession or processInput call returns, which is the
\* session the run persists when it exits, has one of the statuses
\* waiting_input, completed, escalated, error; a stored session has the status
\* active only while the startSession run of that session is in progress.
C37_NoActiveResult ==
    /\ \A c \in DOMAIN calls : Returned(c) => calls[c].cur.status \in ResultStatuses
    /\ (reply.op \in {"startSession", "processInput"} /\ reply.outcome = "ok")
          => reply.value.status \in ResultStatuses
    /\ \A sid \in SessionIds :
          (store[sid] # Null /\ store[sid].status = "active")
          => \E c \in Running(sid) : calls[c].op = "startSession"

\* a processInput call has returned a waiting session while the startSession
\* run of another session is in progress, its session stored as active
C37_Witness ==
    /\ \E c \in DOMAIN calls :
          /\ Returned(c) /\ calls[c].op = "processInput"
          /\ calls[c].cur.status = "waiting_input"
          /\ store[calls[c].sid] = calls[c].cur
    /\ \E c \in DOMAIN calls :
          /\ calls[c].pc = "running" /\ calls[c].op = "startSession"
          /\ calls[c].invoked >= 1
          /\ store[calls[c].sid] # Null
          /\ store[calls[c].sid].status = "active"

\* call c is a processInput run that takes a step: it is accepted, or it
\* resumes after the handler it was suspended in
RunsInput(c) ==
    /\ c \in DOMAIN calls'
    /\ calls'[c].op = "processInput"
    /\ IF c \in DOMAIN calls THEN calls[c].pc = "running" /\ calls'[c] # calls[c]
       ELSE TRUE

\* C38: a step of a processInput run leaves the stored session of its id as
\* it is unless the run exits in this step, and then the store entry becomes
\* the final session of the run; a getSession while the run is suspended
\* returns the session as it was before the call (or none when endSession has
\* removed it meanwhile).
C38_StoreWrittenAtExitOnly ==
    [][/\ \A c \in DOMAIN calls' :
             RunsInput(c)
             => IF calls'[c].pc = "returned"
                THEN /\ store'[calls'[c].sid] = calls'[c].cur
                     /\ reply'.value = calls'[c].cur
                ELSE store'[calls'[c].sid] = store[calls'[c].sid]
       /\ \A c \in DOMAIN calls :
             (/\ calls[c].pc = "running"
              /\ calls[c].op = "processInput"
              /\ GetSession(calls[c].sid))
             => reply'.value \in {calls[c].before, Null}]_vars

\* a getSession issued while a processInput run was suspended, after at least
\* one of its handlers had changed the session, returned the session as it
\* was before the call
C38_Witness ==
    \E c \in DOMAIN calls :
        /\ calls[c].pc = "running" /\ calls[c].op = "processInput"
        /\ calls[c].invoked >= 1
        /\ calls[c].cur.variables # calls[c].before.variables
        /\ reply.op = "getSession" /\ reply.sid = calls[c].sid
        /\ reply.value = calls[c].before
        /\ store[calls[c].sid] = calls[c].before

\* this step is a startSession, processInput or endSession call for session
\* a, or a step of a run of session a
ActsOn(a) ==
    \/ a = Created + 1 /\ StartSession
    \/ \E input \in Inputs : ProcessInput(a, input, FALSE)
    \/ \E c \in DOMAIN calls : calls[c].sid = a /\ Step(c)
    \/ EndSession(a)

\* C39: a step of a startSession, processInput or endSession call for a
\* session leaves the stored session of every other id unchanged, however the
\* calls of the two sessions interleave.
C39_SessionsIsolated ==
    [][\A a \in SessionIds, b \in SessionIds :
          (a # b /\ ActsOn(a)) => store'[b] = store[b]]_vars

\* a call of one session was accepted and has returned while a run of another
\* session, started before it, is still suspended; both sessions are stored
C39_Witness ==
    \E c1 \in DOMAIN calls, c2 \in DOMAIN calls :
        /\ calls[c1].sid # calls[c2].sid
        /\ c1 < c2
        /\ calls[c1].pc = "running" /\ calls[c1].invoked >= 1
        /\ Returned(c2) /\ calls[c2].invoked >= 2
        /\ store[calls[c1].sid] # Null
        /\ store[calls[c2].sid] = calls[c2].cur

\* s without its k-th element
RemoveAt(s, k) == SubSeq(s, 1, k - 1) \o SubSeq(s, k + 1, Len(s))

\* C40: calling the unsubscribe function of a subscription of h removes that
\* one subscription from the subscriptions: every other subscription, another
\* subscription of h included, stays where it is and keeps receiving the
\* events emitted afterwards in the original order.
C40_UnsubscribeRemovesOne ==
    [][\A h \in Subscribers :
          ((\E i \in DOMAIN eventHandlers : eventHandlers[i] = h) /\ Off(h))
          => \E k \in DOMAIN eventHandlers :
                 /\ eventHandlers[k] = h
                 /\ eventHandlers' = RemoveAt(eventHandlers, k)]_vars
====
